---- MODULE Spec2Model ----
(***************************************************************************)
(* A model of the nitro control plane: the gRPC service of the proxy       *)
(* container (package api: Apply, AddDatabase, RemoveDatabase,             *)
(* ImportDatabase), the CLI commands that run database clients inside      *)
(* database containers, and the creation and start of the proxy container  *)
(* (package proxycontainer).                                               *)
(*                                                                         *)
(* Go strings are TLA+ strings; fmt.Sprintf is modelled by concatenation   *)
(* and strings.Split by Split below.  Go's nil is the string "nil".        *)
(***************************************************************************)
EXTENDS Integers, Sequences, FiniteSets, TLC

VARIABLES
    svc,          \* the Service value shared by all calls: Addr, HTTP, Importer
    apply,        \* per Apply call: pc, request, HTTP posts sent, return value
    proxyServers, \* the proxy's http.servers configuration (the admin endpoint's state)
    unary,        \* the last AddDatabase or RemoveDatabase call: inputs, processes, result
    databases,    \* the databases that exist on the database servers: <<host, name>>
    imports,      \* per ImportDatabase call: pc, temp file, options, what it did
    tempFiles,    \* the files in os.TempDir(): name -> content
    docker,       \* the container engine: local proxy image, containers, IDs handed out
    proxy,        \* the Create or FindAndStart call that has just returned
    ctr,          \* the container a CLI command works in: its exec sessions and files
    cli,          \* the CLI command that runs: position, inputs, sessions, messages, result
    config        \* the config file, and the last run of nitro blackfire on

vars == <<svc, apply, proxyServers, unary, databases, imports, tempFiles, docker, proxy,
          ctr, cli, config>>

Nil == "nil"

(***************************************************************************)
(* Bounds and input sets                                                   *)
(***************************************************************************)
\* the largest number of sites of one Apply request
MaxSites == 2

\* the concurrent Apply callers
ApplyCalls == {"c1", "c2"}

\* keys of the request's site map (the upstream container names)
KeyList == <<"web", "app", "cms", "api">>

SiteKeys == {KeyList[i] : i \in 1..MaxSites}

\* the site stored under each key: no alias, two aliases, one alias
AliasesOf(k) ==
    CASE k = "web" -> ""
      [] k = "app" -> "a.io,b.io"
      [] OTHER -> "www." \o k \o ".io"

PortOf(k) == IF k = "app" THEN 9000 ELSE 8080

SiteOf(k) == [Hostname |-> k \o ".nitro", Aliases |-> AliasesOf(k), Port |-> PortOf(k)]

\* every request: a map from some of the keys to their sites
Requests == {[k \in K |-> SiteOf(k)] : K \in SUBSET SiteKeys}

\* what the admin endpoint may answer when it takes the new configuration,
\* and when it refuses it
AcceptStatuses == {200, 204}
RejectStatuses == {500}

(***************************************************************************)
(* Pure helpers                                                            *)
(***************************************************************************)
Last(seq) == seq[Len(seq)]

\* every order in which a range over a Go map may visit the keys in S
RECURSIVE Perms(_)
Perms(S) ==
    IF S = {} THEN {<<>>}
    ELSE UNION {{<<x>> \o p : p \in Perms(S \ {x})} : x \in S}

\* strconv of a non-negative integer, as %d prints it
RECURSIVE Itoa(_)
Itoa(n) ==
    IF n < 10 THEN SubSeq("0123456789", n + 1, n + 1)
    ELSE Itoa(n \div 10) \o SubSeq("0123456789", (n % 10) + 1, (n % 10) + 1)

\* index of the first "," of s, 0 when there is none
RECURSIVE IndexComma(_, _)
IndexComma(s, i) ==
    IF i > Len(s) THEN 0
    ELSE IF SubSeq(s, i, i) = "," THEN i
    ELSE IndexComma(s, i + 1)

\* strings.Split(s, ",")
RECURSIVE Split(_)
Split(s) ==
    LET i == IndexComma(s, 1) IN
    IF i = 0 THEN <<s>>
    ELSE <<SubSeq(s, 1, i - 1)>> \o Split(SubSeq(s, i + 1, Len(s)))

(***************************************************************************)
(* Apply: the route document                                               *)
(***************************************************************************)
DefaultAddr == "http://127.0.0.1:2019"
DefaultClient == "http.DefaultClient"

\* the host names of a site: the hostname, then the aliases when there are any
Hosts(site) ==
    IF site.Aliases # ""
    THEN <<site.Hostname>> \o Split(site.Aliases)
    ELSE <<site.Hostname>>

\* a slip: the upstream is dialled at the site's hostname, not at its key
SiteRouteDialHostname(k, site) ==
    [Handle   |-> <<[Handler |-> "reverse_proxy",
                     Upstreams |-> <<[Dial |-> site.Hostname \o ":" \o Itoa(site.Port)]>>]>>,
     Match    |-> <<[Host |-> Hosts(site)]>>,
     Terminal |-> TRUE]

\* the route of the site stored under key k
SiteRoute(k, site) ==
    [Handle   |-> <<[Handler |-> "reverse_proxy",
                     Upstreams |-> <<[Dial |-> k \o ":" \o Itoa(site.Port)]>>]>>,
     Match    |-> <<[Host |-> Hosts(site)]>>,
     Terminal |-> TRUE]

\* the routes appended while ranging over the map in the order `order`
SiteRoutes(sites, order) ==
    [i \in 1..Len(order) |-> SiteRoute(order[i], sites[order[i]])]

\* the default welcome route of the HTTP server
WelcomeRoute ==
    [Handle   |-> <<[Handler |-> "vars", Root |-> "/var/www/html"],
                    [Handler |-> "file_server", Root |-> "/var/www/html",
                     Hide |-> <<"/etc/caddy/Caddyfile">>]>>,
     Terminal |-> TRUE]

\* a slip: the welcome route is put first on the HTTP server
UpdateRequestWelcomeFirst(routes) ==
    [HTTPS |-> [Listen |-> <<":443">>, Routes |-> routes],
     HTTP  |-> [Listen |-> <<":80">>, Routes |-> <<WelcomeRoute>> \o routes]]

\* caddy.UpdateRequest built from the routes
UpdateRequest(routes) ==
    [HTTPS |-> [Listen |-> <<":443">>, Routes |-> routes],
     HTTP  |-> [Listen |-> <<":80">>, Routes |-> Append(routes, WelcomeRoute)]]

StatusOK == 200

\* a slip: every 2xx status is taken as success
ApplyReturnAny2xx(res, err, n) ==
    IF err # Nil
    THEN [resp |-> [Message |-> "Error updating Caddy API, err: " \o err, Error |-> TRUE],
          err  |-> err]
    ELSE IF res < 200 \/ res > 299
    THEN [resp |-> [Message |-> "Received " \o Itoa(res) \o " response from Caddy API",
                    Error |-> TRUE],
          err  |-> Nil]
    ELSE [resp |-> [Message |-> "Successfully applied changes, sites: " \o Itoa(n),
                    Error |-> FALSE],
          err  |-> Nil]

\* a slip: the transport error is swallowed
ApplyReturnSwallowsError(res, err, n) ==
    IF err # Nil \/ res # StatusOK
    THEN [resp |-> [Message |-> "Received " \o Itoa(res) \o " response from Caddy API",
                    Error |-> TRUE],
          err  |-> Nil]
    ELSE [resp |-> [Message |-> "Successfully applied changes, sites: " \o Itoa(n),
                    Error |-> FALSE],
          err  |-> Nil]

\* what Apply returns once Post has returned (res, err)
ApplyReturn(res, err, n) ==
    IF err # Nil
    THEN [resp |-> [Message |-> "Error updating Caddy API, err: " \o err, Error |-> TRUE],
          err  |-> err]
    ELSE IF res # StatusOK
    THEN [resp |-> [Message |-> "Received " \o Itoa(res) \o " response from Caddy API",
                    Error |-> TRUE],
          err  |-> Nil]
    ELSE [resp |-> [Message |-> "Successfully applied changes, sites: " \o Itoa(n),
                    Error |-> FALSE],
          err  |-> Nil]


(***************************************************************************)
(* Database provisioning: targets, collaborators, commands                 *)
(***************************************************************************)
Engines == {"mysql", "postgres"}
DBNames == {"shop", "blog"}

\* the database containers the requests name, one per engine
Target(engine, db) ==
    IF engine = "mysql"
    THEN [engine |-> "mysql", version |-> "8.0", hostname |-> "mysql-8.0-3306.nitro",
          port |-> "3306", database |-> db]
    ELSE [engine |-> "postgres", version |-> "13", hostname |-> "postgres-13-5432.nitro",
          port |-> "5432", database |-> db]

Targets == {Target(e, d) : e \in Engines, d \in DBNames}

\* gRPC status errors; a nil error is NoErr
NoErr == [code |-> "OK", msg |-> ""]
Internal(msg) == [code |-> "Internal", msg |-> msg]

\* how a launched process may end: it does not start, Wait fails with an error
\* that is no exit error, or it exits with a code
ExecOutcomes ==
    {[kind |-> "nostart", code |-> 0, err |-> "executable file not found"],
     [kind |-> "waiterr", code |-> 0, err |-> "broken pipe"],
     [kind |-> "exit", code |-> 0, err |-> ""],
     [kind |-> "exit", code |-> 1, err |-> "exit status 1"]}

ExitedZero(o) == o.kind = "exit" /\ o.code = 0

\* portavail.Check(host, port): the error of a TCP connection attempt, nil when
\* it connects
PortavailCheck(connects) == IF connects THEN Nil ELSE "connection refused"

\* database.DefaultImportToolFinder(engine, version): the client binary of the engine
DefaultImportToolFinder(engine, version, found) ==
    IF found
    THEN [tool |-> IF engine = "mysql" THEN "mysql" ELSE "psql", err |-> Nil]
    ELSE [tool |-> "", err |-> "unable to find the tool for " \o engine \o " " \o version]

\* a runner that takes every process that started for a success
ExecIgnoresExitCode(o) ==
    IF o.kind = "nostart" THEN "unable to start the command: " \o o.err ELSE Nil

\* Service.exec: the error returned for a process that ended as o
Exec(o) ==
    IF o.kind = "nostart" THEN "unable to start the command: " \o o.err
    ELSE IF o.kind = "exit"
    THEN (IF o.code # 0 THEN "Exit Status: " \o Itoa(o.code) ELSE Nil)
    ELSE o.err

GateMessage(hostname, port) ==
    "it does not appear the database is available on host " \o hostname
        \o " using port " \o port \o ": <nil>"

\* a slip: the drop fails for a database that does not exist
RemoveCommandNoIfExists(engine, hostname, port, db) ==
    IF engine = "mysql"
    THEN <<"--user=nitro", "--host=" \o hostname, "-pnitro", "-e DROP DATABASE " \o db \o ";">>
    ELSE <<"--host=" \o hostname, "--port=" \o port, "--username=nitro",
           "-c DROP DATABASE " \o db \o ";">>

\* AddDatabase: addCommand
AddCommand(engine, hostname, port, db) ==
    IF engine = "mysql"
    THEN <<"--user=nitro", "--host=" \o hostname, "-pnitro",
           "-e CREATE DATABASE IF NOT EXISTS " \o db \o ";">>
    ELSE <<"--host=" \o hostname, "--port=" \o port, "--username=nitro",
           "-c CREATE DATABASE " \o db \o ";">>

\* AddDatabase: privilegesCommand, the empty tuple for a nil slice
PrivilegesCommand(engine, hostname, port, db) ==
    IF engine = "mysql"
    THEN <<"--user=nitro", "--host=" \o hostname, "-pnitro",
           "-e CREATE DATABASE IF NOT EXISTS " \o db \o ";">>
    ELSE <<>>

\* RemoveDatabase: removeCommand
RemoveCommand(engine, hostname, port, db) ==
    IF engine = "mysql"
    THEN <<"--user=nitro", "--host=" \o hostname, "-pnitro",
           "-e DROP DATABASE IF EXISTS " \o db \o ";">>
    ELSE <<"--host=" \o hostname, "--port=" \o port, "--username=nitro",
           "-c DROP DATABASE IF EXISTS " \o db \o ";">>

\* prompt.CreateDatabase (CLI): cmds and privileges, run in the database container
PromptCreateCmds(databaseEngine, db) ==
    IF databaseEngine = "mysql"
    THEN [cmds |-> <<"mysql", "-uroot", "-pnitro",
                     "-e CREATE DATABASE IF NOT EXISTS " \o db \o ";">>,
          privileges |-> <<"mysql", "-uroot", "-pnitro",
                           "-e GRANT ALL PRIVILEGES ON * TO '" \o "nitro" \o "'@'" \o "%" \o "';">>]
    ELSE [cmds |-> <<"psql", "--username=nitro", "--host=127.0.0.1",
                     "-c CREATE DATABASE " \o db \o ";">>,
          privileges |-> <<>>]

\* nitro db import (CLI): createCmd and importCmd, run in the database container
ImportCmds(detected, db, filename) ==
    IF detected = "postgres"
    THEN [createCmd |-> <<"psql", "--username=nitro", "--host=127.0.0.1",
                          "-c CREATE DATABASE " \o db \o ";">>,
          importCmd |-> <<"psql", "--username=nitro", "--host=127.0.0.1", db, "--file",
                          "/tmp/" \o filename>>]
    ELSE [createCmd |-> <<"mysql", "-uroot", "-pnitro",
                          "-e CREATE DATABASE IF NOT EXISTS " \o db \o ";">>,
          importCmd |-> <<"mysql", "-unitro", "-pnitro", db, "-e source /tmp/" \o filename>>]

(***************************************************************************)
(* The database servers: what a client command that exits 0 has done       *)
(***************************************************************************)
HasPrefix(s, p) == Len(s) >= Len(p) /\ SubSeq(s, 1, Len(p)) = p

\* the name between the prefix p and the closing ";" of statement s
NameAfter(s, p) == SubSeq(s, Len(p) + 1, Len(s) - 1)

\* the databases of host after the statement of the -e / -c argument has run
SQLEffect(dbs, host, arg) ==
    LET stmt == SubSeq(arg, 4, Len(arg)) IN
    IF HasPrefix(stmt, "CREATE DATABASE IF NOT EXISTS ")
    THEN dbs \cup {<<host, NameAfter(stmt, "CREATE DATABASE IF NOT EXISTS ")>>}
    ELSE IF HasPrefix(stmt, "CREATE DATABASE ")
    THEN dbs \cup {<<host, NameAfter(stmt, "CREATE DATABASE ")>>}
    ELSE IF HasPrefix(stmt, "DROP DATABASE IF EXISTS ")
    THEN dbs \ {<<host, NameAfter(stmt, "DROP DATABASE IF EXISTS ")>>}
    ELSE dbs

\* the databases after the processes procs have ended as outcomes, in order
RECURSIVE Effects(_, _, _, _)
Effects(dbs, host, procs, outcomes) ==
    IF procs = <<>> THEN dbs
    ELSE Effects(IF ExitedZero(Head(outcomes))
                 THEN SQLEffect(dbs, host, Last(Head(procs).args))
                 ELSE dbs,
                 host, Tail(procs), Tail(outcomes))

(***************************************************************************)
(* AddDatabase and RemoveDatabase                                          *)
(***************************************************************************)
\* what one unary call did: tool lookups, processes launched and how they
\* ended, and the response message and error it returned
Ran(lookups, procs, outcomes, message, err) ==
    [lookups |-> lookups, procs |-> procs, outcomes |-> outcomes,
     message |-> message, err |-> err]

\* a slip: the reachability gate lets the call through when the probe connects
AddDatabaseRunNoGate(t, connects, found, o1, o2) ==
    LET finder == DefaultImportToolFinder(t.engine, t.version, found)
        add == [tool |-> finder.tool,
                args |-> AddCommand(t.engine, t.hostname, t.port, t.database)]
    IN
    IF finder.err # Nil
    THEN Ran(1, <<>>, <<>>, "", Internal("error finding the database tool"))
    ELSE IF Exec(o1) # Nil
    THEN Ran(1, <<add>>, <<o1>>, "", Internal("error creating database: " \o Exec(o1)))
    ELSE Ran(1, <<add>>, <<o1>>,
             "Database \"" \o t.database \o "\" added to \"" \o t.hostname \o "\" successfully",
             NoErr)

\* a slip: a failed create is reported but the privileges step still runs
AddDatabaseRunKeepsGoing(t, connects, found, o1, o2) ==
    LET finder == DefaultImportToolFinder(t.engine, t.version, found)
        add == [tool |-> finder.tool,
                args |-> AddCommand(t.engine, t.hostname, t.port, t.database)]
    IN
    IF PortavailCheck(connects) = Nil
    THEN Ran(0, <<>>, <<>>, "", Internal(GateMessage(t.hostname, t.port)))
    ELSE IF finder.err # Nil
    THEN Ran(1, <<>>, <<>>, "", Internal("error finding the database tool"))
    ELSE IF Exec(o1) # Nil \/ Exec(o2) # Nil
    THEN Ran(1, <<add, add>>, <<o1, o2>>, "",
             Internal("error creating database: "
                        \o (IF Exec(o1) # Nil THEN Exec(o1) ELSE Exec(o2))))
    ELSE Ran(1, <<add, add>>, <<o1, o2>>,
             "Database \"" \o t.database \o "\" added to \"" \o t.hostname \o "\" successfully",
             NoErr)

\* AddDatabase for target t, when the probe connects or not, the tool is found
\* or not, and the processes it launches end as o1 and o2
AddDatabaseRun(t, connects, found, o1, o2) ==
    LET finder == DefaultImportToolFinder(t.engine, t.version, found)
        add == [tool |-> finder.tool,
                args |-> AddCommand(t.engine, t.hostname, t.port, t.database)]
        privilegesCommand == PrivilegesCommand(t.engine, t.hostname, t.port, t.database)
    IN
    IF PortavailCheck(connects) = Nil
    THEN Ran(0, <<>>, <<>>, "", Internal(GateMessage(t.hostname, t.port)))
    ELSE IF finder.err # Nil
    THEN Ran(1, <<>>, <<>>, "", Internal("error finding the database tool"))
    ELSE IF Exec(o1) # Nil
    THEN Ran(1, <<add>>, <<o1>>, "", Internal("error creating database: " \o Exec(o1)))
    ELSE IF privilegesCommand # <<>> /\ Exec(o2) # Nil
    THEN Ran(1, <<add, add>>, <<o1, o2>>, "",
             Internal("error setting privileges on database: " \o Exec(o2)))
    ELSE Ran(1,
             IF privilegesCommand # <<>> THEN <<add, add>> ELSE <<add>>,
             IF privilegesCommand # <<>> THEN <<o1, o2>> ELSE <<o1>>,
             "Database \"" \o t.database \o "\" added to \"" \o t.hostname \o "\" successfully",
             NoErr)

\* RemoveDatabase for target t
RemoveDatabaseRun(t, connects, found, o1) ==
    LET finder == DefaultImportToolFinder(t.engine, t.version, found)
        remove == [tool |-> finder.tool,
                   args |-> RemoveCommand(t.engine, t.hostname, t.port, t.database)]
    IN
    IF PortavailCheck(connects) = Nil
    THEN Ran(0, <<>>, <<>>, "", Internal(GateMessage(t.hostname, t.port)))
    ELSE IF finder.err # Nil
    THEN Ran(1, <<>>, <<>>, "", Internal("error finding the database tool"))
    ELSE IF Exec(o1) # Nil
    THEN Ran(1, <<remove>>, <<o1>>, "", Internal("error removing database: " \o Exec(o1)))
    ELSE Ran(1, <<remove>>, <<o1>>,
             "Removed the database \"" \o t.database \o "\" from \"" \o t.hostname
                \o "\" successfully",
             NoErr)

NoUnary == [op |-> "none", target |-> Target("mysql", "shop"), connects |-> FALSE,
            found |-> FALSE, ran |-> Ran(0, <<>>, <<>>, "", NoErr),
            before |-> {}, again |-> FALSE]

(***************************************************************************)
(* ImportDatabase                                                          *)
(***************************************************************************)
\* the largest number of stream messages after the first
MaxChunks == 2

\* the concurrent ImportDatabase callers
ImportCalls == {"i1", "i2"}

\* the names ioutil.TempFile may pick: nitro-db-import plus a random suffix
TempNames == {"/tmp/nitro-db-import101", "/tmp/nitro-db-import202"}

\* the database fields of a stream message
DatabaseInfo(t, compressed) ==
    [engine |-> t.engine, version |-> t.version, hostname |-> t.hostname,
     port |-> t.port, database |-> t.database, compressed |-> compressed]

\* a message without database fields
NoDatabaseInfo ==
    [engine |-> "", version |-> "", hostname |-> "", port |-> "", database |-> "",
     compressed |-> FALSE]

FirstMessages ==
    [database : {DatabaseInfo(Target("mysql", "shop"), FALSE),
                 DatabaseInfo(Target("postgres", "blog"), TRUE)},
     data : {"", "USE shop;"}]

NextMessages ==
    [database : {NoDatabaseInfo, DatabaseInfo(Target("postgres", "shop"), TRUE),
                 DatabaseInfo(Target("mysql", "blog"), FALSE)},
     data : {"INSERT", " INTO t;"}]

\* database.ImportOptions{}
NoOptions ==
    [Engine |-> "", Version |-> "", Port |-> "", Hostname |-> "", DatabaseName |-> "",
     Compressed |-> FALSE, File |-> ""]

\* the options once the first message req has been read
FirstOptions(opts, req) ==
    [Engine       |-> IF opts.Engine = "" THEN req.database.engine ELSE opts.Engine,
     Version      |-> IF opts.Version = "" THEN req.database.version ELSE opts.Version,
     Port         |-> IF opts.Port = "" THEN req.database.port ELSE opts.Port,
     Hostname     |-> IF opts.Hostname = "" THEN req.database.hostname ELSE opts.Hostname,
     DatabaseName |-> IF opts.DatabaseName = "" THEN req.database.database
                      ELSE opts.DatabaseName,
     Compressed   |-> IF (~opts.Compressed) /\ req.database.compressed
                      THEN req.database.compressed ELSE opts.Compressed,
     File         |-> opts.File]

\* Importer.Import(opts, finder): look the tool up, create the database, then
\* restore it from opts.File
ImporterImport(opts, found, o1, o2) ==
    LET finder == DefaultImportToolFinder(opts.Engine, opts.Version, found)
        create == [tool |-> finder.tool,
                   args |-> IF opts.Engine = "mysql"
                            THEN <<"-uroot", "-pnitro",
                                   "-e CREATE DATABASE IF NOT EXISTS "
                                        \o opts.DatabaseName \o ";">>
                            ELSE <<"--username=nitro", "--host=" \o opts.Hostname,
                                   "-c CREATE DATABASE " \o opts.DatabaseName \o ";">>]
        restore == [tool |-> finder.tool,
                    args |-> IF opts.Engine = "mysql"
                             THEN <<"-unitro", "-pnitro", opts.DatabaseName,
                                    "-e source " \o opts.File>>
                             ELSE <<"--username=nitro", "--host=" \o opts.Hostname,
                                    opts.DatabaseName, "--file", opts.File>>]
    IN
    IF finder.err # Nil THEN Ran(1, <<>>, <<>>, "", finder.err)
    ELSE IF Exec(o1) # Nil THEN Ran(1, <<create>>, <<o1>>, "", Exec(o1))
    ELSE IF Exec(o2) # Nil THEN Ran(1, <<create, restore>>, <<o1, o2>>, "", Exec(o2))
    ELSE Ran(1, <<create, restore>>, <<o1, o2>>, "", Nil)

\* an ImportDatabase call: where it is, its temp file and options, the payloads
\* received so far, the database fields of the first message, whether a later
\* message carried other database fields, the probe's answer, the importer
\* invoked, what the import did, the response sent on the stream, the error
\* returned, and the steps taken after the receive loop, in order
NoImport ==
    [pc |-> "idle", file |-> "", opts |-> NoOptions, received |-> <<>>,
     first |-> NoDatabaseInfo, differs |-> FALSE,
     probed |-> FALSE, connects |-> FALSE, importer |-> Nil,
     ran |-> Ran(0, <<>>, <<>>, "", Nil), sent |-> "", err |-> NoErr,
     steps |-> <<>>]

\* a deferred removal that leaves the file behind
RemoveFileKeeps(files, name) == files

\* a removal that clears the whole directory
RemoveFileAll(files, name) == [n \in {} |-> ""]

\* os.Remove(name)
RemoveFile(files, name) == [n \in DOMAIN files \ {name} |-> files[n]]

\* the deferred os.Remove(tempFile.Name()) and tempFile.Close() of call c, run
\* when it returns err
ImportReturn(c, err) ==
    /\ imports' = [imports EXCEPT ![c].pc = "done", ![c].err = err]
    /\ tempFiles' = RemoveFile(tempFiles, imports[c].file)

\* the call starts: the importer is defaulted and the temp file is created
ImportOpen(c, created, name) ==
    /\ imports[c].pc = "idle"
    /\ svc' = [svc EXCEPT !.Importer = IF @ = Nil THEN "database.NewImporter() of line 233"
                                     ELSE @]
    /\ IF created
       THEN /\ name \notin DOMAIN tempFiles
            \* the random suffix: a name stands for one file only
            /\ \A d \in ImportCalls : imports[d].file # name
            /\ tempFiles' = [n \in DOMAIN tempFiles \cup {name} |->
                                IF n = name THEN "" ELSE tempFiles[n]]
            /\ imports' = [imports EXCEPT ![c].pc = "first", ![c].file = name,
                                          ![c].opts.File = name]
       ELSE /\ imports' = [imports EXCEPT ![c].pc = "done",
                    ![c].err = Internal("Unable creating a temp file for the upload")]
            /\ UNCHANGED tempFiles
    /\ UNCHANGED <<apply, proxyServers, unary, databases, docker, proxy, ctr, cli, config>>

\* the first stream.Recv returns a message
ImportRecvFirst(c, req) ==
    /\ imports[c].pc = "first"
    /\ imports' = [imports EXCEPT ![c].pc = "stream",
                                  ![c].opts = FirstOptions(@, req),
                                  ![c].first = req.database,
                                  ![c].received = <<req.data>>]
    /\ UNCHANGED <<svc, apply, proxyServers, unary, databases, tempFiles, docker, proxy, ctr, cli, config>>

\* the first stream.Recv returns an error: the stream failed or ended (io.EOF)
ImportRecvFirstFails(c, recvErr) ==
    /\ imports[c].pc = "first"
    /\ ImportReturn(c, Internal("unable to receive from stream: " \o recvErr))
    /\ UNCHANGED <<svc, apply, proxyServers, unary, databases, docker, proxy, ctr, cli, config>>

\* a receive loop in which every message sets the options anew
ImportRecvNextOverwrites(c, req, written) ==
    /\ imports[c].pc = "stream"
    /\ Len(imports[c].received) <= MaxChunks
    /\ IF written
       THEN /\ imports' = [imports EXCEPT
                    ![c].received = Append(@, req.data),
                    ![c].differs = @ \/ req.database \notin {NoDatabaseInfo, imports[c].first},
                    ![c].opts = FirstOptions([NoOptions EXCEPT !.File = imports[c].file], req)]
            /\ tempFiles' = [tempFiles EXCEPT ![imports[c].file] = @ \o req.data]
       ELSE ImportReturn(c, Internal("unable to write content to the temp file"))
    /\ UNCHANGED <<svc, apply, proxyServers, unary, databases, docker, proxy, ctr, cli, config>>

\* a receive loop that writes each payload at the start of the file
ImportRecvNextPrepends(c, req, written) ==
    /\ imports[c].pc = "stream"
    /\ Len(imports[c].received) <= MaxChunks
    /\ IF written
       THEN /\ imports' = [imports EXCEPT
                    ![c].received = Append(@, req.data),
                    ![c].differs = @ \/ req.database \notin {NoDatabaseInfo, imports[c].first}]
            /\ tempFiles' = [tempFiles EXCEPT ![imports[c].file] = req.data \o @]
       ELSE ImportReturn(c, Internal("unable to write content to the temp file"))
    /\ UNCHANGED <<svc, apply, proxyServers, unary, databases, docker, proxy, ctr, cli, config>>

\* a later stream.Recv returns a message, whose payload is written to the file
ImportRecvNext(c, req, written) ==
    /\ imports[c].pc = "stream"
    /\ Len(imports[c].received) <= MaxChunks
    /\ IF written
       THEN /\ imports' = [imports EXCEPT
                    ![c].received = Append(@, req.data),
                    ![c].differs = @ \/ req.database \notin {NoDatabaseInfo, imports[c].first}]
            /\ tempFiles' = [tempFiles EXCEPT ![imports[c].file] = @ \o req.data]
       ELSE ImportReturn(c, Internal("unable to write content to the temp file"))
    /\ UNCHANGED <<svc, apply, proxyServers, unary, databases, docker, proxy, ctr, cli, config>>

\* a receive error that is noted and taken for the end of the stream
ImportRecvFailsGoesOn(c, recvErr) ==
    /\ imports[c].pc = "stream"
    /\ imports' = [imports EXCEPT
            ![c].pc = "gate", ![c].steps = Append(@, "eof"),
            ![c].err = Internal("unable to create the stream: " \o recvErr)]
    /\ UNCHANGED <<svc, apply, proxyServers, unary, databases, tempFiles, docker, proxy, ctr, cli, config>>

\* a later stream.Recv returns an error other than io.EOF
ImportRecvFails(c, recvErr) ==
    /\ imports[c].pc = "stream"
    /\ ImportReturn(c, Internal("unable to create the stream: " \o recvErr))
    /\ UNCHANGED <<svc, apply, proxyServers, unary, databases, docker, proxy, ctr, cli, config>>

\* an end of stream after which the import starts at once
ImportRecvEOFSkipsGate(c) ==
    /\ imports[c].pc = "stream"
    /\ imports' = [imports EXCEPT ![c].pc = "import", ![c].steps = Append(@, "eof")]
    /\ UNCHANGED <<svc, apply, proxyServers, unary, databases, tempFiles, docker, proxy, ctr, cli, config>>

\* a later stream.Recv returns io.EOF: the loop is left
ImportRecvEOF(c) ==
    /\ imports[c].pc = "stream"
    /\ imports' = [imports EXCEPT ![c].pc = "gate", ![c].steps = Append(@, "eof")]
    /\ UNCHANGED <<svc, apply, proxyServers, unary, databases, tempFiles, docker, proxy, ctr, cli, config>>

\* the reachability gate
ImportGate(c, connects) ==
    /\ imports[c].pc = "gate"
    /\ IF PortavailCheck(connects) = Nil
       THEN /\ imports' = [imports EXCEPT ![c].pc = "done", ![c].probed = TRUE,
                    ![c].connects = connects, ![c].steps = Append(@, "gate"),
                    ![c].err = Internal(GateMessage(imports[c].opts.Hostname,
                                                    imports[c].opts.Port))]
            /\ tempFiles' = RemoveFile(tempFiles, imports[c].file)
       ELSE /\ imports' = [imports EXCEPT ![c].pc = "import", ![c].probed = TRUE,
                                          ![c].connects = connects,
                                          ![c].steps = Append(@, "gate")]
            /\ UNCHANGED tempFiles
    /\ UNCHANGED <<svc, apply, proxyServers, unary, databases, docker, proxy, ctr, cli, config>>

\* the import by a new importer, then the response on the stream
ImportRun(c, found, o1, o2, sendErr) ==
    /\ imports[c].pc = "import"
    /\ LET ran == ImporterImport(imports[c].opts, found, o1, o2)
           message == "Imported database \"" \o imports[c].opts.DatabaseName \o "\""
       IN /\ imports' = [imports EXCEPT
                ![c].pc = "done",
                ![c].importer = "database.NewImporter() of line 310",
                ![c].ran = ran,
                ![c].sent = IF ran.err = Nil THEN message ELSE "",
                ![c].steps = @ \o <<"import">>
                               \o (IF ran.err = Nil THEN <<"send">> ELSE <<>>),
                ![c].err = IF ran.err # Nil
                           THEN Internal("error importing the database " \o ran.err)
                           ELSE IF sendErr # Nil THEN Internal(sendErr)
                           ELSE NoErr]
          /\ databases' = Effects(databases, imports[c].opts.Hostname,
                                  ran.procs, ran.outcomes)
    /\ tempFiles' = RemoveFile(tempFiles, imports[c].file)
    /\ UNCHANGED <<svc, apply, proxyServers, unary, docker, proxy, ctr, cli, config>>

(***************************************************************************)
(* The proxy container: the container engine and the environment           *)
(***************************************************************************)
\* the largest number of containers the engine creates in one behaviour
MaxCreated == 2

\* craftcms/nitro-proxy:<version.Version>
ProxyImage == "craftcms/nitro-proxy:2.0.0-beta.2"

\* the label keys of package labels
LabelsNitro == "labels.Nitro"
LabelsType == "labels.Type"
LabelsProxy == "labels.Proxy"
LabelsProxyVersion == "labels.ProxyVersion"

\* the labels Create gives the proxy container
ProxyLabels ==
    {<<LabelsNitro, "true">>, <<LabelsType, "proxy">>, <<LabelsProxy, "true">>,
     <<LabelsProxyVersion, "2.0.0-beta.2">>}

\* the environment of the process; a port variable is unset, a port number or
\* no port number
AllEnvs ==
    [NITRO_DEVELOPMENT : {"", "true"},
     NITRO_HTTP_PORT   : {"", "8080", "web"},
     NITRO_HTTPS_PORT  : {"", "8443", "web"},
     NITRO_API_PORT    : {"", "5001", "web"}]

\* the port variables that are set
PortsSet(env) ==
    {v \in {"NITRO_HTTP_PORT", "NITRO_HTTPS_PORT", "NITRO_API_PORT"} : env[v] # ""}

\* the environments explored: at most one port variable is set, or all three
\* are set to port numbers; the development switch goes with no port variable
Envs ==
    {env \in AllEnvs :
        /\ \/ Cardinality(PortsSet(env)) <= 1
           \/ \A v \in PortsSet(env) : env[v] # "web"
        /\ Cardinality(PortsSet(env)) \notin {2}
        /\ env.NITRO_DEVELOPMENT = "true" => PortsSet(env) = {}}

\* the network IDs and the volume Create is called with
NetworkIDs == {"net-a", "net-b"}
VolumeName == "nitro"

\* a container of the engine
Container(id, name, state, labels) ==
    [ID |-> id, Names |-> <<name>>, State |-> state, Labels |-> labels]

\* types.Container{}
NoContainer == [ID |-> "", Names |-> <<>>, State |-> "", Labels |-> {}]

ContainerStates == {"created", "exited", "running"}

\* the engine before any call: no image, no container
NoDocker == [image |-> FALSE, containers |-> {}, created |-> 0]

\* the engines a behaviour may start with: the image pulled or not; no
\* container, the proxy container in some state, or a container of that name
\* that carries no nitro label
Dockers ==
    [image : BOOLEAN,
     containers : {{}} \cup {{Container("proxy0", "/nitro-proxy", st, ProxyLabels)} :
                                st \in ContainerStates}
                       \cup {{Container("other0", "/nitro-proxy", "exited", {})}},
     created : {0}]

\* how the engine answers the requests of one call: the request it fails, if
\* any (a call ends at the first request that fails)
DockerOutcomes ==
    {"ok", "ImageList", "ImagePull", "ImagePullRead", "ContainerList",
     "ContainerCreate", "ContainerStart"}

\* the containers a label filter lets through
Filtered(containers, labels) == {c \in containers : labels \subseteq c.Labels}

\* the containers one of whose names is the proxy's
Named(containers) ==
    {c \in containers :
        \E i \in DOMAIN c.Names : c.Names[i] = "nitro-proxy" \/ c.Names[i] = "/nitro-proxy"}

\* the value of a string of decimal digits, -1 for any other string
DigitValue(ch) ==
    CASE ch = "0" -> 0 [] ch = "1" -> 1 [] ch = "2" -> 2 [] ch = "3" -> 3
      [] ch = "4" -> 4 [] ch = "5" -> 5 [] ch = "6" -> 6 [] ch = "7" -> 7
      [] ch = "8" -> 8 [] ch = "9" -> 9 [] OTHER -> -1

RECURSIVE ParseUint(_)
ParseUint(s) ==
    IF s = "" THEN -1
    ELSE LET d == DigitValue(SubSeq(s, Len(s), Len(s)))
             rest == IF Len(s) = 1 THEN 0 ELSE ParseUint(SubSeq(s, 1, Len(s) - 1))
         IN IF d < 0 \/ rest < 0 THEN -1 ELSE rest * 10 + d

\* nat.NewPort(proto, port): the port in the form <number>/<proto>, or an
\* error when port is no number between 0 and 65535; the empty string is port 0
NewPort(proto, port) ==
    LET n == IF port = "" THEN 0 ELSE ParseUint(port) IN
    IF n < 0 \/ n > 65535
    THEN [port |-> "", err |-> "invalid port '" \o port \o "'"]
    ELSE [port |-> Itoa(n) \o "/" \o proto, err |-> Nil]

\* the call that has just returned: the operation, its inputs, the engine
\* before it and how it answered, the requests issued in order, the step that
\* failed, the error and the container returned
NoProxyCall ==
    [op |-> "none", env |-> [NITRO_DEVELOPMENT |-> "", NITRO_HTTP_PORT |-> "",
                             NITRO_HTTPS_PORT |-> "", NITRO_API_PORT |-> ""],
     networkID |-> "", before |-> NoDocker, out |-> "ok", calls |-> <<>>,
     failed |-> "",
     err |-> Nil, container |-> NoContainer]

\* the sentinel error of FindAndStart
ErrNoProxyContainer == "unable to locate the proxy container"

\* what a call did: the requests issued, the step that failed, the error, the
\* container returned and the engine afterwards
Returns(calls, failed, err, container, d) ==
    [calls |-> calls, failed |-> failed, err |-> err, container |-> container,
     docker |-> d]

\* the error of a request the engine refuses
EngineError == "Error response from daemon"

\* a start that puts a new container in the place of the old one
StartedAsNew(d, id) ==
    [d EXCEPT !.containers =
        {IF c.ID = id THEN [c EXCEPT !.ID = id \o "-new", !.State = "running"] ELSE c :
            c \in @}]

\* the engine after container id has been started
Started(d, id) ==
    [d EXCEPT !.containers =
        {IF c.ID = id THEN [c EXCEPT !.State = "running"] ELSE c : c \in @}]

(***************************************************************************)
(* proxycontainer.Create                                                   *)
(***************************************************************************)
\* an image step whose failures do not end the call
CreateImageContinues(env, d, out) ==
    LET list == [call |-> "ImageList", label |-> LabelsNitro \o "=true",
                 reference |-> ProxyImage]
        pull == [call |-> "ImagePull", reference |-> ProxyImage]
    IN
    IF env.NITRO_DEVELOPMENT = "true" THEN Returns(<<>>, "", Nil, NoContainer, d)
    ELSE IF out = "ImageList" \/ d.image THEN Returns(<<list>>, "", Nil, NoContainer, d)
    ELSE IF out \in {"ImagePull", "ImagePullRead"}
    THEN Returns(<<list, pull>>, "", Nil, NoContainer, d)
    ELSE Returns(<<list, pull>>, "", Nil, NoContainer, [d EXCEPT !.image = TRUE])

\* the image step: skipped under NITRO_DEVELOPMENT=true, else the image is
\* looked up and pulled when it is not local
CreateImage(env, d, out) ==
    LET list == [call |-> "ImageList", label |-> LabelsNitro \o "=true",
                 reference |-> ProxyImage]
        pull == [call |-> "ImagePull", reference |-> ProxyImage]
    IN
    IF env.NITRO_DEVELOPMENT = "true" THEN Returns(<<>>, "", Nil, NoContainer, d)
    ELSE IF out = "ImageList"
    THEN Returns(<<list>>, "ImageList",
                 "unable to get a list of images, " \o EngineError, NoContainer, d)
    ELSE IF d.image THEN Returns(<<list>>, "", Nil, NoContainer, d)
    ELSE IF out = "ImagePull"
    THEN Returns(<<list, pull>>, "ImagePull",
                 "unable to pull the nitro-proxy from docker hub, " \o EngineError,
                 NoContainer, d)
    ELSE IF out = "ImagePullRead"
    THEN Returns(<<list, pull>>, "ImagePull",
                 "unable to read the output from pulling the image, unexpected EOF",
                 NoContainer, d)
    ELSE Returns(<<list, pull>>, "", Nil, NoContainer, [d EXCEPT !.image = TRUE])

\* the three ports: the HTTPS branch for a set variable drops the error of
\* nat.NewPort and tests the error left by the step before it, which is nil
CreatePorts(env) ==
    LET http == NewPort("tcp", IF env.NITRO_HTTP_PORT = "" THEN "80"
                               ELSE env.NITRO_HTTP_PORT)
        https == NewPort("tcp", IF env.NITRO_HTTPS_PORT = "" THEN "443"
                                ELSE env.NITRO_HTTPS_PORT)
        api == NewPort("tcp", IF env.NITRO_API_PORT = "" THEN "5000"
                              ELSE env.NITRO_API_PORT)
        ports == [httpPort |-> http.port, httpsPort |-> https.port,
                  apiPort |-> api.port]
    IN
    IF http.err # Nil
    THEN [err |-> "unable to set the HTTP port, " \o http.err, ports |-> ports]
    ELSE IF env.NITRO_HTTPS_PORT = "" /\ https.err # Nil
    THEN [err |-> "unable to set the HTTPS port, " \o https.err, ports |-> ports]
    ELSE IF api.err # Nil
    THEN [err |-> "unable to set the API port, " \o api.err, ports |-> ports]
    ELSE [err |-> Nil, ports |-> ports]

\* a port binding of the host configuration
PortBinding(hostIP, hostPort) == [HostIP |-> hostIP, HostPort |-> hostPort]

\* the PortBindings map literal: a key written twice keeps its last value
PortBindings(ports) ==
    [p \in {ports.httpPort, ports.httpsPort, ports.apiPort} |->
        IF p = ports.apiPort THEN <<PortBinding("127.0.0.1", "5000")>>
        ELSE IF p = ports.httpsPort THEN <<PortBinding("127.0.0.1", "443")>>
        ELSE <<PortBinding("127.0.0.1", "80")>>]

\* a create request that names no network
CreateRequestUnattached(ports, volume, networkID) ==
    [call |-> "ContainerCreate",
     name |-> "nitro-proxy",
     Image |-> ProxyImage,
     ExposedPorts |-> {ports.httpPort, ports.httpsPort, ports.apiPort},
     Labels |-> ProxyLabels,
     NetworkMode |-> "default",
     Mounts |-> <<[Type |-> "volume", Source |-> volume, Target |-> "/data"]>>,
     PortBindings |-> PortBindings(ports),
     EndpointsConfig |-> [n \in {"nitro-network"} |-> [NetworkID |-> ""]]]

\* the ContainerCreate request
CreateRequest(ports, volume, networkID) ==
    [call |-> "ContainerCreate",
     name |-> "nitro-proxy",
     Image |-> ProxyImage,
     ExposedPorts |-> {ports.httpPort, ports.httpsPort, ports.apiPort},
     Labels |-> ProxyLabels,
     NetworkMode |-> "default",
     Mounts |-> <<[Type |-> "volume", Source |-> volume, Target |-> "/data"]>>,
     PortBindings |-> PortBindings(ports),
     EndpointsConfig |-> [n \in {"nitro-network"} |-> [NetworkID |-> networkID]]]

\* a start step that leaves the container as it is
CreateStartNever(calls, d, containerID, proxyRunning, out) ==
    Returns(calls, "", Nil, NoContainer, d)

\* a start step that starts the container whether it runs or not
CreateStartAlways(calls, d, containerID, proxyRunning, out) ==
    LET start == [call |-> "ContainerStart", id |-> containerID] IN
    IF out = "ContainerStart"
    THEN Returns(calls \o <<start>>, "ContainerStart",
                 "unable to start the nitro container, " \o EngineError, NoContainer, d)
    ELSE Returns(calls \o <<start>>, "", Nil, NoContainer, Started(d, containerID))

\* the start step: the container is started unless it was listed as running
CreateStart(calls, d, containerID, proxyRunning, out) ==
    LET start == [call |-> "ContainerStart", id |-> containerID] IN
    IF proxyRunning THEN Returns(calls, "", Nil, NoContainer, d)
    ELSE IF out = "ContainerStart"
    THEN Returns(calls \o <<start>>, "ContainerStart",
                 "unable to start the nitro container, " \o EngineError, NoContainer, d)
    ELSE Returns(calls \o <<start>>, "", Nil, NoContainer, Started(d, containerID))

\* Create(ctx, docker, output, volume, networkID) against engine d0.  The
\* engine refuses a create when it is told to fail, when the image is not
\* local, or when the name is taken.
CreateRun(env, d0, out, volume, networkID) ==
    LET image == CreateImage(env, d0, out)
        d == image.docker
        list == [call |-> "ContainerList",
                 labels |-> {<<LabelsNitro, "true">>, <<LabelsProxy, "true">>},
                 all |-> TRUE]
        found == Named(Filtered(d.containers, list.labels))
        containerID == IF found = {} THEN "" ELSE (CHOOSE c \in found : TRUE).ID
        proxyRunning == \E c \in found : c.State = "running"
        ports == CreatePorts(env)
        create == CreateRequest(ports.ports, volume, networkID)
        refused == out = "ContainerCreate" \/ ~d.image \/ Named(d.containers) # {}
        newID == "proxy" \o Itoa(d.created + 1)
        created == [d EXCEPT
                        !.containers = @ \cup {Container(newID, "/nitro-proxy",
                                                         "created", create.Labels)},
                        !.created = @ + 1]
    IN
    IF image.err # Nil THEN image
    ELSE IF out = "ContainerList"
    THEN Returns(image.calls \o <<list>>, "ContainerList",
                 "unable to list the containers\n" \o EngineError, NoContainer, d)
    ELSE IF containerID # ""
    THEN CreateStart(image.calls \o <<list>>, d, containerID, proxyRunning, out)
    ELSE IF ports.err # Nil
    THEN Returns(image.calls \o <<list>>, "NewPort", ports.err, NoContainer, d)
    ELSE IF refused
    THEN Returns(image.calls \o <<list, create>>, "ContainerCreate",
                 "unable to create the container from image " \o ProxyImage \o "\n"
                    \o EngineError, NoContainer, d)
    ELSE CreateStart(image.calls \o <<list, create>>, created, newID, FALSE, out)

(***************************************************************************)
(* proxycontainer.FindAndStart                                             *)
(***************************************************************************)
\* a FindAndStart that reports a failed listing as a missing container
FindAndStartRunListErrorIsNotFound(d, out) ==
    LET list == [call |-> "ContainerList", labels |-> {<<LabelsType, "proxy">>},
                 all |-> TRUE]
        found == Named(Filtered(d.containers, list.labels))
        c == CHOOSE c \in found : TRUE
        start == [call |-> "ContainerStart", id |-> c.ID]
    IN
    IF out = "ContainerList" \/ found = {}
    THEN Returns(<<list>>, "", ErrNoProxyContainer, NoContainer, d)
    ELSE IF c.State = "running" THEN Returns(<<list>>, "", Nil, c, d)
    ELSE IF out = "ContainerStart"
    THEN Returns(<<list, start>>, "ContainerStart",
                 "unable to start the proxy container: " \o EngineError, NoContainer, d)
    ELSE Returns(<<list, start>>, "", Nil, c, Started(d, c.ID))

FindAndStartRun(d, out) ==
    LET list == [call |-> "ContainerList", labels |-> {<<LabelsType, "proxy">>},
                 all |-> TRUE]
        found == Named(Filtered(d.containers, list.labels))
        c == CHOOSE c \in found : TRUE
        start == [call |-> "ContainerStart", id |-> c.ID]
    IN
    IF out = "ContainerList"
    THEN Returns(<<list>>, "ContainerList",
                 "unable to list the containers: " \o EngineError, NoContainer, d)
    ELSE IF found = {} THEN Returns(<<list>>, "", ErrNoProxyContainer, NoContainer, d)
    ELSE IF c.State = "running" THEN Returns(<<list>>, "", Nil, c, d)
    ELSE IF out = "ContainerStart"
    THEN Returns(<<list, start>>, "ContainerStart",
                 "unable to start the proxy container: " \o EngineError, NoContainer, d)
    ELSE Returns(<<list, start>>, "", Nil, c, Started(d, c.ID))

(***************************************************************************)
(* The CLI commands that wait for the container engine: nitro db import,   *)
(* the create-database prompt and nitro trust.  A command is the sequence  *)
(* of requests it sends to the engine; it stands at one of them (pc) until *)
(* the request has been answered.                                          *)
(***************************************************************************)
\* the certificate nitro trust waits for, and the backup and database of an import
CertPath == "/data/caddy/pki/authorities/local/root.crt"
BackupName == "backup.sql"
ImportDB == "craft"

\* what the backup was detected as ("": an archive or a zip, nothing detected)
Detected == {"", "mysql", "postgres"}

\* an exec session of the engine, as ContainerExecCreate leaves it
Session(cmd, tty) ==
    [Cmd |-> cmd, Tty |-> tty, Attached |-> FALSE, Started |-> FALSE,
     Running |-> FALSE, ExitCode |-> 0]

\* the container before the command: compatibility label, sessions, files, and the
\* files that are on their way
NoEngine == [label |-> "", exists |-> FALSE, execs |-> <<>>, files |-> {},
             arriving |-> {}]

\* no command runs
NoCommand == [cmd |-> Nil, pc |-> 0, detected |-> "", databaseEngine |-> "",
              show |-> FALSE, db |-> "", filename |-> "", exec |-> 0, log |-> <<>>,
              out |-> <<>>, returned |-> FALSE, err |-> Nil]

\* one request of a command: the exec it belongs to, what it asks, the command line
\* of the session, what an error is wrapped in, what is reported once it is through
Step(phase, step, wrap, say) ==
    [phase |-> phase, step |-> step, cmd |-> <<>>, tty |-> FALSE, wrap |-> wrap,
     say |-> say]

\* an in-container exec: create the session, attach, copy the output if asked to,
\* start, and (wait) inspect until the session no longer runs
ExecSteps(phase, cmd, tty, show, wait, outer, say) ==
    LET s(step, wrap, msg) ==
            [phase |-> phase, step |-> step, cmd |-> cmd, tty |-> tty,
             wrap |-> outer \o wrap, say |-> msg]
    IN  <<s("create", "", ""), s("attach", "", "")>>
        \o (IF show
            THEN <<s("copy", "unable to copy the output of container, ", "")>>
            ELSE <<>>)
        \o <<s("start", "unable to start the container, ", IF wait THEN "" ELSE say)>>
        \o (IF wait THEN <<s("inspect", "", say)>> ELSE <<>>)

\* execCreate, the helper the import calls first: an in-container exec that is waited
\* for; the import wraps its error
execCreate(cmd, show) ==
    ExecSteps("execCreate", cmd, FALSE, show, TRUE, "unable to create the database, ", "")

\* nitro db import, from the upload on
ImportPlan(detected, db, filename, show) ==
    LET cmds == ImportCmds(detected, db, filename) IN
    <<Step("upload", "copyTo", "", ""), Step("upload", "stat", "", "")>>
    \o execCreate(cmds.createCmd, show)
    \o ExecSteps("createExec", cmds.createCmd, FALSE, show, TRUE, "", "")
    \o ExecSteps("importExec", cmds.importCmd, TRUE, show, TRUE, "", "Import successful")

\* prompt.CreateDatabase, from the first exec on: the create exec is started and not
\* waited for, the privileges exec (mysql) is waited for
PromptPlan(databaseEngine, db) ==
    LET c == PromptCreateCmds(databaseEngine, db)
        grant == Len(c.privileges) > 0
    IN  ExecSteps("e", c.cmds, FALSE, FALSE, FALSE, "",
                  IF grant THEN "" ELSE "Database added")
        \o (IF grant
            THEN ExecSteps("privileges", c.privileges, FALSE, FALSE, TRUE, "",
                           "Database added")
            ELSE <<>>)
        \o <<Step("info", "containerInspect", "", "")>>

\* nitro trust
TrustPlan ==
    <<Step("trust", "list", "unable to get the list of containers, ", ""),
      Step("trust", "statName", "", ""),
      Step("trust", "copyFrom", "unable to get the certificate from the container, ", ""),
      Step("trust", "tar", "", ""),
      Step("trust", "tempFile", "unable to create a temporary file, ", ""),
      Step("trust", "write", "unable to write the certificate to the temporary file, ", ""),
      Step("trust", "install", "", "Nitro certificates are now trusted")>>

\* the requests of the command that runs
Plan(c) ==
    CASE c.cmd = "import" -> ImportPlan(c.detected, c.db, c.filename, c.show)
      [] c.cmd = "createdb" -> PromptPlan(c.databaseEngine, c.db)
      [] c.cmd = "trust" -> TrustPlan
      [] OTHER -> <<>>

\* the request the command stands at
Current(c) == Plan(c)[c.pc]

\* the command stands at a request of this kind
At(step) ==
    /\ cli.cmd # Nil
    /\ ~cli.returned
    /\ Current(cli).step = step

\* ErrNoContainers of nitro trust
ErrNoContainers == "there are no running containers"

\* the request failed: the command returns the error, wrapped as the code wraps it
Fail(c, e) == [c EXCEPT !.returned = TRUE, !.err = Current(c).wrap \o e]

\* the request is through: report what there is to report and go on to the next
\* request, or return nil after the last one
Advance(c) ==
    LET msg == Current(c).say
        out == IF msg = "" THEN c.out ELSE Append(c.out, msg)
    IN  [c EXCEPT !.pc = @ + 1, !.out = out, !.returned = (c.pc = Len(Plan(c)))]

\* the requests sent so far and what they were answered; a poll that is answered as
\* the poll before it is written down once
Logged(c, op, id, answer) ==
    LET entry == [op |-> op, id |-> id, answer |-> answer] IN
    IF c.log # <<>> /\ Last(c.log) = entry
    THEN c
    ELSE [c EXCEPT !.log = Append(@, entry)]

\* filepath.Base of a path in the container: what follows the last slash
RECURSIVE LastSlash(_, _)
LastSlash(s, i) ==
    IF i = 0 THEN 0
    ELSE IF SubSeq(s, i, i) = "/" THEN i
    ELSE LastSlash(s, i - 1)

BaseName(path) == SubSeq(path, LastSlash(path, Len(path)) + 1, Len(path))

\* ContainerStatPath: the stat of a file that is there, an error otherwise
StatPath(e, path) ==
    IF path \in e.files
    THEN [Name |-> BaseName(path), err |-> Nil]
    ELSE [Name |-> "", err |-> EngineError]

\* ContainerExecInspect of a session
ExecInspect(e, id) == [Running |-> e.execs[id].Running, ExitCode |-> e.execs[id].ExitCode]

\* the loops: does the command poll again?
\* a loop over an exec session that never waits
ExecWaitingNever(resp) == FALSE

\* createWaiting = resp.Running
ExecWaiting(resp) == resp.Running

\* a wait for the uploaded file that never ends
UploadWaitingForever(err) == TRUE

\* the wait for the uploaded file: until the stat succeeds
UploadWaiting(err) == err # Nil

\* the wait for the certificate: until the stat succeeds and names a file
CertWaiting(stat) == stat.err # Nil \/ stat.Name = ""

(***************************************************************************)
(* nitro blackfire on: the config file, and one run of the command         *)
(***************************************************************************)
\* the hostnames of the sites of a config file, in the order of the file
Hostnames == <<"a.test", "b.test">>

\* a site of the config file: what the command reads and writes of it
ConfigSite(hostname, xdebug, blackfire) ==
    [Hostname |-> hostname, Xdebug |-> xdebug, Blackfire |-> blackfire]

\* a config: the Blackfire credentials and the sites
Config(id, token, sites) ==
    [Blackfire |-> [ServerID |-> id, ServerToken |-> token], Sites |-> sites]

EmptyConfig == Config("", "", <<>>)

\* the config files a run can find: credentials set or not, no site, one site, two
ConfigFiles ==
    {Config(id, token, [i \in 1..n |-> ConfigSite(Hostnames[i], flags[i][1], flags[i][2])]) :
        id \in {"", "server-id"}, token \in {"", "server-token"},
        n \in 0..Len(Hostnames), flags \in [1..Len(Hostnames) -> BOOLEAN \X BOOLEAN]}

\* what is entered at a prompt of output.Ask(message, "", ":", nil): an error, nothing
\* (the default is the empty string and nothing validates the answer), or a value
Answers(value) == {[text |-> "", err |-> "EOF"], [text |-> "", err |-> Nil],
                   [text |-> value, err |-> Nil]}

\* what output.Select returns: an error or an index into the options
Selections == {[selected |-> 0, err |-> "EOF"], [selected |-> 0, err |-> Nil],
               [selected |-> 1, err |-> Nil]}

\* cfg.ListOfSitesByDirectory(home, wd): the sites under the working directory when
\* there are any, all sites otherwise; under is which sites are under it
ListOfSitesByDirectory(sites, under) ==
    LET here == SelectSeq(sites, LAMBDA s : s.Hostname \in under) IN
    IF here = <<>> THEN sites ELSE here

\* cfg.DisableXdebug(hostname) and cfg.EnableBlackfire(hostname): the first site of
\* that hostname gets the flag
SetFlag(sites, hostname, flag, value) ==
    LET at == {i \in 1..Len(sites) : sites[i].Hostname = hostname} IN
    IF at = {} THEN sites
    ELSE LET i == CHOOSE j \in at : \A k \in at : j <= k IN
         [sites EXCEPT ![i] = [@ EXCEPT ![flag] = value]]

\* no run yet: how often the config was saved, the site that was selected, the site
\* EnableBlackfire was called for, the config in memory, the result
NoRun == [saves |-> 0, site |-> "", enabled |-> "", cfg |-> EmptyConfig,
          returned |-> FALSE, err |-> Nil]

NoConfig == [file |-> EmptyConfig, before |-> EmptyConfig, run |-> NoRun]

\* RunE of nitro blackfire on, on the config file: the answers at the two prompts,
\* the sites under the working directory, the choice at the selection, and the save
\* that fails (0: none).  It yields the file afterwards and what the run did.
BlackfireOnRun(file, id, token, under, choice, failing) ==
    LET askID == file.Blackfire.ServerID = ""
        cfg1 == IF askID THEN [file EXCEPT !.Blackfire.ServerID = id.text] ELSE file
        askToken == cfg1.Blackfire.ServerToken = ""
        cfg2 == IF askToken THEN [cfg1 EXCEPT !.Blackfire.ServerToken = token.text]
                ELSE cfg1
        save1 == IF askID THEN 1 ELSE 0
        save2 == save1 + (IF askToken THEN 1 ELSE 0)
        sites == ListOfSitesByDirectory(cfg2.Sites, under)
        done(saves, saved, cfg, hostname, err) ==
            [file |-> saved,
             run |-> [saves |-> saves, site |-> hostname, enabled |-> hostname,
                      cfg |-> cfg, returned |-> TRUE, err |-> err]]
    IN  IF askID /\ id.err # Nil THEN done(0, file, file, "", id.err)
        ELSE IF askID /\ failing = 1
        THEN done(0, file, cfg1, "", "unable to save config, write error")
        ELSE IF askToken /\ token.err # Nil THEN done(save1, cfg1, cfg1, "", token.err)
        ELSE IF askToken /\ failing = save2
        THEN done(save1, cfg1, cfg2, "", "unable to save config, write error")
        ELSE IF Len(sites) # 1 /\ choice.err # Nil
        THEN done(save2, cfg2, cfg2, "", choice.err)
        ELSE IF Len(sites) # 1 /\ choice.selected >= Len(sites)
        THEN done(save2, cfg2, cfg2, "", "panic: index out of range")
        ELSE LET site == IF Len(sites) = 1 THEN sites[1]
                         ELSE sites[choice.selected + 1]
                 cfg3 == IF site.Xdebug
                         THEN [cfg2 EXCEPT
                                 !.Sites = SetFlag(@, site.Hostname, "Xdebug", FALSE)]
                         ELSE cfg2
                 cfg4 == [cfg3 EXCEPT
                            !.Sites = SetFlag(@, site.Hostname, "Blackfire", TRUE)]
             IN  IF failing = save2 + 1
                 THEN done(save2, cfg2, cfg4, site.Hostname, "write error")
                 ELSE done(save2 + 1, cfg4, cfg4, site.Hostname, Nil)

(***************************************************************************)
(* Apply: the calls                                                        *)
(***************************************************************************)
\* an Apply call: where it is, its request, the POSTs it has sent, what the POST
\* returned (error, status code) and what the call returned
NoCall == [pc |-> "idle", request |-> <<>>, posts |-> <<>>,
           postErr |-> Nil, status |-> 0, ret |-> Nil]

InitApply ==
    /\ svc \in [Addr : {"", "http://proxy:2019"}, HTTP : {Nil, "client"},
                Importer : {"importer"}]
    /\ apply = [c \in ApplyCalls |-> NoCall]
    /\ proxyServers = Nil
    /\ unary = NoUnary
    /\ databases = {}
    /\ imports = [c \in ImportCalls |-> NoImport]
    /\ tempFiles = <<>>
    /\ docker = NoDocker
    /\ proxy = NoProxyCall
    /\ ctr = NoEngine
    /\ cli = NoCommand
    /\ config = NoConfig

\* an Apply that sends its request a second time
ApplyPostTwice(c, request, order) ==
    /\ apply[c].pc = "idle"
    /\ LET http == IF svc.HTTP = Nil THEN DefaultClient ELSE svc.HTTP
           addr == IF svc.Addr = "" THEN DefaultAddr ELSE svc.Addr
           update == UpdateRequest(SiteRoutes(request, order))
           post == [client |-> http, url |-> addr \o "/config/apps/http/servers",
                    contentType |-> "application/json", body |-> update]
       IN /\ svc' = [svc EXCEPT !.HTTP = http, !.Addr = addr]
          /\ apply' = [apply EXCEPT ![c] =
                [@ EXCEPT !.pc = "posted", !.request = request,
                          !.posts = @ \o <<post, post>>]]
    /\ UNCHANGED <<proxyServers, unary, databases, imports, tempFiles, docker, proxy, ctr, cli, config>>

\* Apply up to the point where the POST is on the wire
ApplyPost(c, request, order) ==
    /\ apply[c].pc = "idle"
    /\ LET http == IF svc.HTTP = Nil THEN DefaultClient ELSE svc.HTTP
           addr == IF svc.Addr = "" THEN DefaultAddr ELSE svc.Addr
           update == UpdateRequest(SiteRoutes(request, order))
       IN /\ svc' = [svc EXCEPT !.HTTP = http, !.Addr = addr]
          /\ apply' = [apply EXCEPT ![c] =
                [@ EXCEPT !.pc = "posted", !.request = request,
                          !.posts = Append(@, [client |-> http,
                                               url |-> addr \o "/config/apps/http/servers",
                                               contentType |-> "application/json",
                                               body |-> update])]]
    /\ UNCHANGED <<proxyServers, unary, databases, imports, tempFiles, docker, proxy, ctr, cli, config>>

\* an admin endpoint that adds the routes it is sent to those it has
ApplyAnsweredMerges(c, accept, status) ==
    /\ apply[c].pc = "posted"
    /\ status \in (IF accept THEN AcceptStatuses ELSE RejectStatuses)
    /\ LET body == apply[c].posts[Len(apply[c].posts)].body IN
       proxyServers' =
            IF ~accept THEN proxyServers
            ELSE IF \A d \in ApplyCalls : apply[d].status \notin AcceptStatuses THEN body
            ELSE [HTTPS |-> [Listen |-> body.HTTPS.Listen,
                             Routes |-> proxyServers.HTTPS.Routes \o body.HTTPS.Routes],
                  HTTP  |-> [Listen |-> body.HTTP.Listen,
                             Routes |-> proxyServers.HTTP.Routes \o body.HTTP.Routes]]
    /\ apply' = [apply EXCEPT ![c] =
            [@ EXCEPT !.pc = "done", !.status = status,
                      !.ret = ApplyReturn(status, Nil,
                                          Cardinality(DOMAIN apply[c].request))]]
    /\ UNCHANGED <<svc, unary, databases, imports, tempFiles, docker, proxy, ctr, cli, config>>

\* the admin endpoint answers: it replaces http.servers when it accepts
ApplyAnswered(c, accept, status) ==
    /\ apply[c].pc = "posted"
    /\ status \in (IF accept THEN AcceptStatuses ELSE RejectStatuses)
    /\ proxyServers' = IF accept THEN apply[c].posts[Len(apply[c].posts)].body
                       ELSE proxyServers
    /\ apply' = [apply EXCEPT ![c] =
            [@ EXCEPT !.pc = "done", !.status = status,
                      !.ret = ApplyReturn(status, Nil,
                                          Cardinality(DOMAIN apply[c].request))]]
    /\ UNCHANGED <<svc, unary, databases, imports, tempFiles, docker, proxy, ctr, cli, config>>

\* the POST fails at transport level: the admin endpoint is unreachable
ApplyUnreachable(c) ==
    /\ apply[c].pc = "posted"
    /\ apply' = [apply EXCEPT ![c] =
            [@ EXCEPT !.pc = "done", !.postErr = "connection refused",
                      !.ret = ApplyReturn(0, "connection refused",
                                          Cardinality(DOMAIN apply[c].request))]]
    /\ UNCHANGED <<svc, proxyServers, unary, databases, imports, tempFiles, docker, proxy, ctr, cli, config>>

NextApply ==
    \E c \in ApplyCalls :
        \/ \E request \in Requests : \E order \in Perms(DOMAIN request) :
                ApplyPost(c, request, order)
        \/ \E accept \in BOOLEAN : \E status \in AcceptStatuses \cup RejectStatuses :
                ApplyAnswered(c, accept, status)
        \/ ApplyUnreachable(c)

SpecApply == InitApply /\ [][NextApply]_vars

(***************************************************************************)
(* AddDatabase and RemoveDatabase: the calls                                *)
(***************************************************************************)
\* the call is the same successful RemoveDatabase as the one before it
RemovedBefore(t) ==
    unary.op = "RemoveDatabase" /\ unary.target = t /\ unary.ran.err = NoErr

AddDatabase(t, connects, found, o1, o2) ==
    LET ran == AddDatabaseRun(t, connects, found, o1, o2) IN
    /\ unary' = [op |-> "AddDatabase", target |-> t, connects |-> connects,
                 found |-> found, ran |-> ran, before |-> databases, again |-> FALSE]
    /\ databases' = Effects(databases, t.hostname, ran.procs, ran.outcomes)
    /\ UNCHANGED <<svc, apply, proxyServers, imports, tempFiles, docker, proxy, ctr, cli, config>>

RemoveDatabase(t, connects, found, o1) ==
    LET ran == RemoveDatabaseRun(t, connects, found, o1) IN
    /\ unary' = [op |-> "RemoveDatabase", target |-> t, connects |-> connects,
                 found |-> found, ran |-> ran, before |-> databases,
                 again |-> RemovedBefore(t)]
    /\ databases' = Effects(databases, t.hostname, ran.procs, ran.outcomes)
    /\ UNCHANGED <<svc, apply, proxyServers, imports, tempFiles, docker, proxy, ctr, cli, config>>

InitDB ==
    /\ svc \in [Addr : {DefaultAddr}, HTTP : {DefaultClient}, Importer : {Nil, "importer"}]
    /\ apply = [c \in ApplyCalls |-> NoCall]
    /\ proxyServers = Nil
    /\ unary = NoUnary
    /\ databases = {}
    /\ imports = [c \in ImportCalls |-> NoImport]
    /\ tempFiles = <<>>
    /\ docker = NoDocker
    /\ proxy = NoProxyCall
    /\ ctr = NoEngine
    /\ cli = NoCommand
    /\ config = NoConfig

\* the unary calls, for the given targets and process outcomes
NextUnary(targets, outcomes) ==
    \/ \E t \in targets : \E connects, found \in BOOLEAN : \E o1, o2 \in outcomes :
            AddDatabase(t, connects, found, o1, o2)
    \/ \E t \in targets : \E connects, found \in BOOLEAN : \E o1 \in outcomes :
            RemoveDatabase(t, connects, found, o1)

NextDB == NextUnary(Targets, ExecOutcomes)

SpecDB == InitDB /\ [][NextDB]_vars

(***************************************************************************)
(* The three database operations behind the reachability gate: the unary   *)
(* calls and one ImportDatabase caller                                     *)
(***************************************************************************)
NextImport(c, firsts, nexts, names) ==
    \/ \E created \in BOOLEAN : \E name \in names : ImportOpen(c, created, name)
    \/ \E req \in firsts : ImportRecvFirst(c, req)
    \/ \E recvErr \in {"EOF", "transport is closing"} : ImportRecvFirstFails(c, recvErr)
    \/ \E req \in nexts : \E written \in BOOLEAN : ImportRecvNext(c, req, written)
    \/ ImportRecvFails(c, "transport is closing")
    \/ ImportRecvEOF(c)
    \/ \E connects \in BOOLEAN : ImportGate(c, connects)
    \/ \E found \in BOOLEAN : \E o1, o2 \in ExecOutcomes :
            \E sendErr \in {Nil, "transport is closing"} :
                ImportRun(c, found, o1, o2, sendErr)

\* the stream of the one caller: one first message, one payload
GateFirsts == {m \in FirstMessages : m.data = "" /\ m.database.engine = "mysql"}
GateNexts == {m \in NextMessages : m.data = "INSERT" /\ m.database = NoDatabaseInfo}
GateNames == {"/tmp/nitro-db-import101"}
GateTargets == {t \in Targets : t.database = "shop"}
GateOutcomes == {o \in ExecOutcomes : o.kind = "exit"}

NextGate ==
    \/ NextUnary(GateTargets, GateOutcomes)
    \/ NextImport("i1", GateFirsts, GateNexts, GateNames)

SpecGate == InitDB /\ [][NextGate]_vars

(***************************************************************************)
(* ImportDatabase: two concurrent streams, the second one with one first   *)
(* message and one payload                                                 *)
(***************************************************************************)
NextImports ==
    \/ NextImport("i1", FirstMessages, NextMessages, TempNames)
    \/ NextImport("i2", GateFirsts, GateNexts, TempNames)

SpecImport == InitDB /\ [][NextImports]_vars

(***************************************************************************)
(* The proxy container: the calls, one after the other, and what happens   *)
(* to the container from outside between them                              *)
(***************************************************************************)
Create(env, out, networkID) ==
    LET run == CreateRun(env, docker, out, VolumeName, networkID) IN
    /\ run.docker.created <= MaxCreated
    /\ proxy' = [op |-> "Create", env |-> env, networkID |-> networkID,
                 before |-> docker, out |-> out, calls |-> run.calls,
                 failed |-> run.failed,
                 err |-> run.err, container |-> run.container]
    /\ docker' = run.docker
    /\ UNCHANGED <<svc, apply, proxyServers, unary, databases, imports, tempFiles,
                   ctr, cli, config>>

FindAndStart(out) ==
    LET run == FindAndStartRun(docker, out) IN
    /\ proxy' = [op |-> "FindAndStart", env |-> NoProxyCall.env, networkID |-> "",
                 before |-> docker, out |-> out, calls |-> run.calls,
                 failed |-> run.failed,
                 err |-> run.err, container |-> run.container]
    /\ docker' = run.docker
    /\ UNCHANGED <<svc, apply, proxyServers, unary, databases, imports, tempFiles,
                   ctr, cli, config>>

\* the container is stopped from outside; no call has just returned any more
ContainerStopped ==
    /\ \E c \in docker.containers :
            /\ c.State = "running"
            /\ docker' = [docker EXCEPT !.containers =
                            (@ \ {c}) \cup {[c EXCEPT !.State = "exited"]}]
    /\ proxy' = NoProxyCall
    /\ UNCHANGED <<svc, apply, proxyServers, unary, databases, imports, tempFiles,
                   ctr, cli, config>>

\* a container that does not run is removed from outside
ContainerRemoved ==
    /\ \E c \in docker.containers :
            /\ c.State # "running"
            /\ docker' = [docker EXCEPT !.containers = @ \ {c}]
    /\ proxy' = NoProxyCall
    /\ UNCHANGED <<svc, apply, proxyServers, unary, databases, imports, tempFiles,
                   ctr, cli, config>>

InitProxy ==
    /\ svc = [Addr |-> DefaultAddr, HTTP |-> DefaultClient, Importer |-> "importer"]
    /\ apply = [c \in ApplyCalls |-> NoCall]
    /\ proxyServers = Nil
    /\ unary = NoUnary
    /\ databases = {}
    /\ imports = [c \in ImportCalls |-> NoImport]
    /\ tempFiles = <<>>
    /\ docker \in Dockers
    /\ proxy = NoProxyCall
    /\ ctr = NoEngine
    /\ cli = NoCommand
    /\ config = NoConfig

NextProxy ==
    \/ \E env \in Envs : \E out \in DockerOutcomes : \E networkID \in NetworkIDs :
            Create(env, out, networkID)
    \/ \E out \in DockerOutcomes : FindAndStart(out)
    \/ ContainerStopped
    \/ ContainerRemoved

SpecProxy == InitProxy /\ [][NextProxy]_vars

(***************************************************************************)
(* The CLI commands: a command is run, the engine answers its requests one *)
(* after the other, and meanwhile sessions finish and files arrive         *)
(***************************************************************************)
\* nitro db import <file>: the backup was detected, a database container of that
\* engine was chosen (any database container when nothing was detected), the name
\* of the database was entered
RunImport(detected, label, show) ==
    /\ cli.cmd = Nil
    /\ detected # "" => label = detected
    /\ cli' = [NoCommand EXCEPT !.cmd = "import", !.pc = 1, !.detected = detected,
                                !.show = show, !.db = ImportDB,
                                !.filename = BackupName]
    /\ ctr' = [NoEngine EXCEPT !.label = label, !.exists = TRUE]
    /\ UNCHANGED <<svc, apply, proxyServers, unary, databases, imports, tempFiles,
                   docker, proxy, config>>

\* prompt.CreateDatabase: confirmed, a database container chosen, the name entered
RunCreateDatabase(databaseEngine) ==
    /\ cli.cmd = Nil
    /\ cli' = [NoCommand EXCEPT !.cmd = "createdb", !.pc = 1,
                                !.databaseEngine = databaseEngine, !.db = ImportDB]
    /\ ctr' = [NoEngine EXCEPT !.label = databaseEngine, !.exists = TRUE]
    /\ UNCHANGED <<svc, apply, proxyServers, unary, databases, imports, tempFiles,
                   docker, proxy, config>>

\* nitro trust: there is a proxy container or none; its certificate is there, on its
\* way, or never written
RunTrust(exists, certificate) ==
    /\ cli.cmd = Nil
    /\ cli' = [NoCommand EXCEPT !.cmd = "trust", !.pc = 1]
    /\ ctr' = [NoEngine EXCEPT
                    !.exists = exists,
                    !.files = IF certificate = "there" THEN {CertPath} ELSE {},
                    !.arriving = IF certificate = "arriving" THEN {CertPath} ELSE {}]
    /\ UNCHANGED <<svc, apply, proxyServers, unary, databases, imports, tempFiles,
                   docker, proxy, config>>

\* CopyToContainer: the backup is on its way to /tmp of the container
CopyToContainer(ok) ==
    /\ At("copyTo")
    /\ IF ok
       THEN /\ ctr' = [ctr EXCEPT !.arriving = @ \cup {"/tmp/" \o cli.filename}]
            /\ cli' = Advance(Logged(cli, "copyTo", 0, "ok"))
       ELSE /\ ctr' = ctr
            /\ cli' = Fail(Logged(cli, "copyTo", 0, "error"), EngineError)
    /\ UNCHANGED <<svc, apply, proxyServers, unary, databases, imports, tempFiles,
                   docker, proxy, config>>

\* one round of the wait for the uploaded file
UploadWait ==
    /\ At("stat")
    /\ LET stat == StatPath(ctr, "/tmp/" \o cli.filename)
           c == Logged(cli, "stat", 0, IF stat.err = Nil THEN "ok" ELSE "error")
       IN  cli' = IF UploadWaiting(stat.err) THEN c ELSE Advance(c)
    /\ UNCHANGED <<svc, apply, proxyServers, unary, databases, imports, tempFiles,
                   docker, proxy, ctr, config>>

\* ContainerList of nitro trust
ContainerList(ok) ==
    /\ At("list")
    /\ LET c == Logged(cli, "list", 0, IF ok THEN "ok" ELSE "error") IN
       cli' = IF ~ok THEN Fail(c, EngineError)
              ELSE IF ~ctr.exists
                   THEN [c EXCEPT !.returned = TRUE, !.err = ErrNoContainers]
                   ELSE Advance(c)
    /\ UNCHANGED <<svc, apply, proxyServers, unary, databases, imports, tempFiles,
                   docker, proxy, ctr, config>>

\* one round of the wait for the certificate
CertWait ==
    /\ At("statName")
    /\ LET stat == StatPath(ctr, CertPath)
           c == Logged(cli, "stat", 0, IF stat.err = Nil THEN "ok" ELSE "error")
       IN  cli' = IF CertWaiting(stat) THEN c ELSE Advance(c)
    /\ UNCHANGED <<svc, apply, proxyServers, unary, databases, imports, tempFiles,
                   docker, proxy, ctr, config>>

\* ContainerExecCreate: the engine hands out a session for the command line
ContainerExecCreate(ok) ==
    /\ At("create")
    /\ LET id == Len(ctr.execs) + 1 IN
       IF ok
       THEN /\ ctr' = [ctr EXCEPT
                            !.execs = Append(@, Session(Current(cli).cmd,
                                                        Current(cli).tty))]
            /\ cli' = Advance([Logged(cli, "create", id, "ok") EXCEPT !.exec = id])
       ELSE /\ ctr' = ctr
            /\ cli' = Fail(Logged(cli, "create", 0, "error"), EngineError)
    /\ UNCHANGED <<svc, apply, proxyServers, unary, databases, imports, tempFiles,
                   docker, proxy, config>>

\* ContainerExecAttach to the session
ContainerExecAttach(ok) ==
    /\ At("attach")
    /\ IF ok
       THEN /\ ctr' = [ctr EXCEPT !.execs[cli.exec].Attached = TRUE]
            /\ cli' = Advance(Logged(cli, "attach", cli.exec, "ok"))
       ELSE /\ ctr' = ctr
            /\ cli' = Fail(Logged(cli, "attach", cli.exec, "error"), EngineError)
    /\ UNCHANGED <<svc, apply, proxyServers, unary, databases, imports, tempFiles,
                   docker, proxy, config>>

\* ContainerExecStart: the session runs
ContainerExecStart(ok) ==
    /\ At("start")
    /\ IF ok
       THEN /\ ctr' = [ctr EXCEPT !.execs[cli.exec].Started = TRUE,
                                        !.execs[cli.exec].Running = TRUE]
            /\ cli' = Advance(Logged(cli, "start", cli.exec, "ok"))
       ELSE /\ ctr' = ctr
            /\ cli' = Fail(Logged(cli, "start", cli.exec, "error"), EngineError)
    /\ UNCHANGED <<svc, apply, proxyServers, unary, databases, imports, tempFiles,
                   docker, proxy, config>>

\* one round of the wait for the session: ContainerExecInspect
ContainerExecInspect(ok) ==
    /\ At("inspect")
    /\ LET resp == ExecInspect(ctr, cli.exec)
           c == Logged(cli, "inspect", cli.exec,
                       IF ~ok THEN "error"
                       ELSE IF resp.Running THEN "running" ELSE "not running")
       IN  cli' = IF ~ok THEN Fail(c, EngineError)
                  ELSE IF ExecWaiting(resp) THEN c ELSE Advance(c)
    /\ UNCHANGED <<svc, apply, proxyServers, unary, databases, imports, tempFiles,
                   docker, proxy, ctr, config>>

\* the requests and local steps that change nothing in the container and that no
\* loop repeats: StdCopy of the output, ContainerInspect, CopyFromContainer, reading
\* the tar, the temporary file, writing it, installing the certificate
Plain == {"copy", "containerInspect", "copyFrom", "tar", "tempFile", "write", "install"}

Replied(step, ok) ==
    /\ At(step)
    /\ LET c == Logged(cli, step, cli.exec, IF ok THEN "ok" ELSE "error") IN
       cli' = IF ok THEN Advance(c) ELSE Fail(c, EngineError)
    /\ UNCHANGED <<svc, apply, proxyServers, unary, databases, imports, tempFiles,
                   docker, proxy, ctr, config>>

\* a session that runs finishes, with exit code 0 or not
ExecFinishes(code) ==
    /\ \E id \in 1..Len(ctr.execs) :
            /\ ctr.execs[id].Running
            /\ ctr' = [ctr EXCEPT !.execs[id].Running = FALSE,
                                        !.execs[id].ExitCode = code]
    /\ UNCHANGED <<svc, apply, proxyServers, unary, databases, imports, tempFiles,
                   docker, proxy, cli, config>>

\* a file that is on its way is there
FileArrives ==
    /\ \E path \in ctr.arriving :
            ctr' = [ctr EXCEPT !.files = @ \cup {path},
                                     !.arriving = @ \ {path}]
    /\ UNCHANGED <<svc, apply, proxyServers, unary, databases, imports, tempFiles,
                   docker, proxy, cli, config>>

InitCLI ==
    /\ svc = [Addr |-> DefaultAddr, HTTP |-> DefaultClient, Importer |-> "importer"]
    /\ apply = [c \in ApplyCalls |-> NoCall]
    /\ proxyServers = Nil
    /\ unary = NoUnary
    /\ databases = {}
    /\ imports = [c \in ImportCalls |-> NoImport]
    /\ tempFiles = <<>>
    /\ docker = NoDocker
    /\ proxy = NoProxyCall
    /\ ctr = NoEngine
    /\ cli = NoCommand
    /\ config = NoConfig

\* a step of the command that runs
CommandStep ==
    \/ \E ok \in BOOLEAN : CopyToContainer(ok)
    \/ UploadWait
    \/ \E ok \in BOOLEAN : ContainerList(ok)
    \/ CertWait
    \/ \E ok \in BOOLEAN : ContainerExecCreate(ok)
    \/ \E ok \in BOOLEAN : ContainerExecAttach(ok)
    \/ \E ok \in BOOLEAN : ContainerExecStart(ok)
    \/ \E ok \in BOOLEAN : ContainerExecInspect(ok)
    \/ \E step \in Plain : \E ok \in BOOLEAN : Replied(step, ok)

NextCLI ==
    \/ \E detected \in Detected : \E label \in Engines : \E show \in BOOLEAN :
            RunImport(detected, label, show)
    \/ \E databaseEngine \in Engines : RunCreateDatabase(databaseEngine)
    \/ \E exists \in BOOLEAN : \E certificate \in {"there", "arriving", "never"} :
            RunTrust(exists, certificate)
    \/ CommandStep
    \/ \E code \in {0, 1} : ExecFinishes(code)
    \/ FileArrives

SpecCLI == InitCLI /\ [][NextCLI]_vars

\* the command is not starved: a step it can take is taken
SpecCLIFair == SpecCLI /\ WF_vars(CommandStep)

(***************************************************************************)
(* nitro blackfire on: the runs, one after the other on the same file      *)
(***************************************************************************)
BlackfireOn(id, token, under, choice, failing) ==
    LET r == BlackfireOnRun(config.file, id, token, under, choice, failing) IN
    /\ config' = [file |-> r.file, before |-> config.file, run |-> r.run]
    /\ UNCHANGED <<svc, apply, proxyServers, unary, databases, imports, tempFiles,
                   docker, proxy, ctr, cli>>

InitBlackfire ==
    /\ svc = [Addr |-> DefaultAddr, HTTP |-> DefaultClient, Importer |-> "importer"]
    /\ apply = [c \in ApplyCalls |-> NoCall]
    /\ proxyServers = Nil
    /\ unary = NoUnary
    /\ databases = {}
    /\ imports = [c \in ImportCalls |-> NoImport]
    /\ tempFiles = <<>>
    /\ docker = NoDocker
    /\ proxy = NoProxyCall
    /\ ctr = NoEngine
    /\ cli = NoCommand
    /\ \E file \in ConfigFiles : config = [file |-> file, before |-> file, run |-> NoRun]

NextBlackfire ==
    \E id \in Answers("server-id") : \E token \in Answers("server-token") :
    \E under \in SUBSET {Hostnames[i] : i \in 1..Len(Hostnames)} :
    \E choice \in Selections : \E failing \in 0..3 :
        BlackfireOn(id, token, under, choice, failing)

SpecBlackfire == InitBlackfire /\ [][NextBlackfire]_vars

(***************************************************************************)
(* Apply: the claims                                                       *)
(***************************************************************************)
Sent(c) == apply[c].pc # "idle"
Returned(c) == apply[c].pc = "done"
Doc(c) == apply[c].posts[1].body
NumSites(c) == Cardinality(DOMAIN apply[c].request)

\* a route that matches every request and serves files from root
IsStaticFallback(route, root) ==
    /\ "Match" \notin DOMAIN route
    /\ route.Terminal
    /\ \E i \in 1..Len(route.Handle) :
            route.Handle[i].Handler = "file_server" /\ route.Handle[i].Root = root

\* C1: for a non-empty site list the document has exactly the two servers HTTPS
\* (listening on :443, len(sites) routes) and HTTP (listening on :80,
\* len(sites)+1 routes, the last one the static fallback rooted at /var/www/html)
C1_TwoServers ==
    \A c \in ApplyCalls :
        (Sent(c) /\ NumSites(c) > 0) =>
            /\ DOMAIN Doc(c) = {"HTTPS", "HTTP"}
            /\ Doc(c).HTTPS.Listen = <<":443">>
            /\ Doc(c).HTTP.Listen = <<":80">>
            /\ Len(Doc(c).HTTPS.Routes) = NumSites(c)
            /\ Len(Doc(c).HTTP.Routes) = NumSites(c) + 1
            /\ IsStaticFallback(Last(Doc(c).HTTP.Routes), "/var/www/html")
            /\ \A i \in 1..NumSites(c) :
                    ~IsStaticFallback(Doc(c).HTTP.Routes[i], "/var/www/html")

C1_Witness ==
    \E c \in ApplyCalls : Sent(c) /\ NumSites(c) = MaxSites

\* C2: two Apply calls with the same request build the same route order, on the
\* HTTPS server and on the first len(sites) routes of the HTTP server
C2_SameRequestSameOrder ==
    \A c, d \in ApplyCalls :
        (Sent(c) /\ Sent(d) /\ apply[c].request = apply[d].request) =>
            /\ Doc(c).HTTPS.Routes = Doc(d).HTTPS.Routes
            /\ SubSeq(Doc(c).HTTP.Routes, 1, NumSites(c))
                    = SubSeq(Doc(d).HTTP.Routes, 1, NumSites(d))

\* the comma-separated components of an alias list, none for the empty list
AliasSet(s) ==
    IF s = "" THEN {}
    ELSE {SubSeq(s, i, j) : <<i, j>> \in
            {p \in (1..Len(s) + 1) \X (0..Len(s)) :
                /\ p[1] <= p[2] + 1
                /\ \A x \in p[1]..p[2] : SubSeq(s, x, x) # ","
                /\ (p[1] = 1 \/ SubSeq(s, p[1] - 1, p[1] - 1) = ",")
                /\ (p[2] = Len(s) \/ SubSeq(s, p[2] + 1, p[2] + 1) = ",")}}

PortText(p) ==
    CASE p = 8080 -> "8080"
      [] p = 9000 -> "9000"

\* the route is the one the claim describes for the site stored under key k
IsSiteRoute(route, k, site) ==
    /\ route.Terminal
    /\ Len(route.Match) = 1
    /\ {route.Match[1].Host[j] : j \in 1..Len(route.Match[1].Host)}
            = {site.Hostname} \cup AliasSet(site.Aliases)
    /\ Len(route.Handle) = 1
    /\ route.Handle[1].Handler = "reverse_proxy"
    /\ Len(route.Handle[1].Upstreams) = 1
    /\ route.Handle[1].Upstreams[1].Dial = k \o ":" \o PortText(site.Port)

\* C3: every site of the request has its route on both servers: terminal,
\* matching exactly {hostname} and the comma-separated aliases, with one
\* reverse_proxy handler dialling <key>:<port> of that site
C3_SiteRoute ==
    \A c \in ApplyCalls :
        Sent(c) =>
            /\ \A k \in DOMAIN apply[c].request :
                    \E i \in 1..Len(Doc(c).HTTPS.Routes) :
                        /\ IsSiteRoute(Doc(c).HTTPS.Routes[i], k, apply[c].request[k])
                        /\ Doc(c).HTTP.Routes[i] = Doc(c).HTTPS.Routes[i]
            /\ \A i \in 1..Len(Doc(c).HTTPS.Routes) :
                    \E k \in DOMAIN apply[c].request :
                        IsSiteRoute(Doc(c).HTTPS.Routes[i], k, apply[c].request[k])

C3_Witness ==
    \E c \in ApplyCalls :
        /\ Sent(c)
        /\ \E k \in DOMAIN apply[c].request : apply[c].request[k].Aliases = ""
        /\ \E k \in DOMAIN apply[c].request :
                Cardinality(AliasSet(apply[c].request[k].Aliases)) = 2

CountText(n) ==
    CASE n = 0 -> "0"
      [] n = 1 -> "1"
      [] n = 2 -> "2"
      [] n = 3 -> "3"
      [] n = 4 -> "4"

Answered(c) == Returned(c) /\ apply[c].postErr = Nil
SoftFailure(c) == apply[c].ret.resp.Error /\ apply[c].ret.err = Nil
Success(c) ==
    /\ ~apply[c].ret.resp.Error
    /\ apply[c].ret.err = Nil
    /\ apply[c].ret.resp.Message
            = "Successfully applied changes, sites: " \o CountText(NumSites(c))

\* C4 as stated: an answered Apply returns error=true with a nil error exactly
\* when the status is outside the 2xx range, and success for every 2xx status
C4_SoftFailureIffNot2xx ==
    \A c \in ApplyCalls :
        Answered(c) =>
            /\ SoftFailure(c) <=> (apply[c].status < 200 \/ apply[c].status > 299)
            /\ (apply[c].status >= 200 /\ apply[c].status <= 299) => Success(c)

\* C4 as amended: an answered Apply returns error=true with a nil error exactly
\* when the status is not 200, and the success message with the number of
\* sites for status 200
C4_SoftFailureIffNot200 ==
    \A c \in ApplyCalls :
        Answered(c) =>
            /\ SoftFailure(c) <=> (apply[c].status # 200)
            /\ (apply[c].status = 200) => Success(c)

C4_Witness ==
    /\ \E c \in ApplyCalls : Answered(c) /\ apply[c].status = 204 /\ SoftFailure(c)
    /\ \E c \in ApplyCalls : Answered(c) /\ apply[c].status = 200 /\ NumSites(c) > 0

\* C5: an Apply whose POST failed at transport level returns a non-nil error,
\* so what it returns is never what a rejection by the proxy returns
C5_TransportErrorReturned ==
    \A c \in ApplyCalls :
        (Returned(c) /\ apply[c].postErr # Nil) =>
            /\ apply[c].ret.err # Nil
            /\ ~SoftFailure(c)
            /\ \A d \in ApplyCalls :
                    (Answered(d) /\ apply[d].status # 200) => apply[d].ret # apply[c].ret

C5_Witness ==
    \E c, d \in ApplyCalls :
        /\ Returned(c) /\ apply[c].postErr # Nil
        /\ Answered(d) /\ apply[d].status = 500

(***************************************************************************)
(* Database provisioning: the claims                                       *)
(***************************************************************************)
Called(op) == unary.op = op
Succeeded == unary.ran.err = NoErr /\ unary.ran.message # ""
Failed == unary.ran.err.code = "Internal" /\ unary.ran.message = ""

Statement(proc) == SubSeq(Last(proc.args), 4, Len(Last(proc.args)))

\* C7: a successful AddDatabase runs, for mysql, one CREATE DATABASE IF NOT
\* EXISTS <db> command and then one command granting all privileges, and for
\* postgres the create command alone
C7_CreateThenGrant ==
    (Called("AddDatabase") /\ Succeeded) =>
        IF unary.target.engine = "mysql"
        THEN /\ Len(unary.ran.procs) = 2
             /\ Statement(unary.ran.procs[1])
                    = "CREATE DATABASE IF NOT EXISTS " \o unary.target.database \o ";"
             /\ HasPrefix(Statement(unary.ran.procs[2]), "GRANT ALL PRIVILEGES")
        ELSE /\ Len(unary.ran.procs) = 1
             /\ Statement(unary.ran.procs[1])
                    = "CREATE DATABASE " \o unary.target.database \o ";"

\* C8: in AddDatabase a create command that does not start or exits nonzero
\* ends the call with an error, no second command and no success message; a
\* failure of the second command after a successful create ends it with an
\* error that names the privileges step and not the create step
C8_AddDatabaseStepErrors ==
    (Called("AddDatabase") /\ Len(unary.ran.outcomes) >= 1) =>
        /\ ~ExitedZero(unary.ran.outcomes[1]) =>
                /\ Failed
                /\ Len(unary.ran.procs) = 1
                /\ HasPrefix(unary.ran.err.msg, "error creating database")
        /\ (Len(unary.ran.outcomes) = 2 /\ ExitedZero(unary.ran.outcomes[1])
                /\ ~ExitedZero(unary.ran.outcomes[2])) =>
                /\ Failed
                /\ HasPrefix(unary.ran.err.msg, "error setting privileges")
                /\ ~HasPrefix(unary.ran.err.msg, "error creating database")

C8_Witness ==
    /\ Called("AddDatabase")
    /\ Len(unary.ran.outcomes) = 2
    /\ ExitedZero(unary.ran.outcomes[1])
    /\ unary.ran.outcomes[2].kind = "exit" /\ unary.ran.outcomes[2].code = 1

\* C9: RemoveDatabase past the gate launches one process and no other, the
\* DROP DATABASE IF EXISTS <db> of its target; when that exits 0 the call
\* succeeds whether or not the database existed, the database is gone and the
\* others are untouched, so a second call leaves what the first one left
C9_RemoveDatabaseIdempotent ==
    Called("RemoveDatabase") =>
        /\ Len(unary.ran.procs) <= 1
        /\ (~unary.connects /\ unary.found) => Len(unary.ran.procs) = 1
        /\ \A i \in 1..Len(unary.ran.procs) :
                Statement(unary.ran.procs[i])
                    = "DROP DATABASE IF EXISTS " \o unary.target.database \o ";"
        /\ (Len(unary.ran.outcomes) = 1 /\ ExitedZero(unary.ran.outcomes[1])) =>
                /\ Succeeded
                /\ databases = unary.before
                                \ {<<unary.target.hostname, unary.target.database>>}
                /\ unary.again => databases = unary.before

C9_Witness ==
    /\ Called("RemoveDatabase")
    /\ unary.again
    /\ Succeeded
    /\ databases # {}
    /\ <<unary.target.hostname, unary.target.database>> \notin unary.before

\* the command lines of the engine table, without the shell quotes
TableCreate(engine, db, host) ==
    IF engine = "mysql"
    THEN "mysql -uroot -pnitro -e CREATE DATABASE IF NOT EXISTS " \o db \o ";"
    ELSE "psql --username=nitro --host=" \o host \o " -c CREATE DATABASE " \o db \o ";"

TableGrant == "mysql -uroot -pnitro -e GRANT ALL PRIVILEGES ON * TO 'nitro'@'%';"

TableDrop(engine, db, host) ==
    IF engine = "mysql"
    THEN "mysql -uroot -pnitro -e DROP DATABASE IF EXISTS " \o db \o ";"
    ELSE "psql --username=nitro --host=" \o host \o " -c DROP DATABASE IF EXISTS "
            \o db \o ";"

TableImport(engine, db, host, path) ==
    IF engine = "mysql"
    THEN "mysql -unitro -pnitro " \o db \o " -e source " \o path
    ELSE "psql --username=nitro --host=" \o host \o " " \o db \o " --file " \o path

\* the words of an argument vector, separated by blanks
RECURSIVE CommandLine(_)
CommandLine(argv) ==
    IF Len(argv) = 1 THEN argv[1]
    ELSE argv[1] \o " " \o CommandLine(Tail(argv))

ProcLine(proc) == CommandLine(<<proc.tool>> \o proc.args)

\* C10: the argument vectors of create, grant, drop and import are those of the
\* engine table, in the daemon's AddDatabase and RemoveDatabase and in the
\* CLI's import and create-database commands
C10_CommandsMatchEngineTable ==
    /\ (Called("AddDatabase") /\ Len(unary.ran.procs) >= 1) =>
            ProcLine(unary.ran.procs[1])
                = TableCreate(unary.target.engine, unary.target.database,
                              unary.target.hostname)
    /\ (Called("AddDatabase") /\ Succeeded /\ unary.target.engine = "mysql") =>
            /\ Len(unary.ran.procs) = 2
            /\ ProcLine(unary.ran.procs[2]) = TableGrant
    /\ (Called("RemoveDatabase") /\ Len(unary.ran.procs) >= 1) =>
            ProcLine(unary.ran.procs[1])
                = TableDrop(unary.target.engine, unary.target.database,
                            unary.target.hostname)
    /\ \A e \in Engines : \A d \in DBNames :
            /\ CommandLine(PromptCreateCmds(e, d).cmds) = TableCreate(e, d, "127.0.0.1")
            /\ e = "mysql" => CommandLine(PromptCreateCmds(e, d).privileges) = TableGrant
            /\ e # "mysql" => PromptCreateCmds(e, d).privileges = <<>>
            /\ CommandLine(ImportCmds(e, d, "backup.sql").createCmd)
                    = TableCreate(e, d, "127.0.0.1")
            /\ CommandLine(ImportCmds(e, d, "backup.sql").importCmd)
                    = TableImport(e, d, "127.0.0.1", "/tmp/backup.sql")

(***************************************************************************)
(* ImportDatabase: the claims                                              *)
(***************************************************************************)
ImportReturned(c) == imports[c].pc = "done"
CreatedFile(c) == imports[c].file # ""
FirstRead(c) == imports[c].received # <<>>
StreamEnded(c) == imports[c].steps # <<>>
GateRejected(c) == imports[c].probed /\ imports[c].connects
GatePassed(c) == imports[c].probed /\ ~imports[c].connects
ImportRan(c) == imports[c].importer # Nil
ImportSucceeded(c) ==
    /\ ImportRan(c)
    /\ imports[c].ran.err = Nil
    /\ Len(imports[c].ran.procs) = 2
    /\ \A i \in 1..2 : ExitedZero(imports[c].ran.outcomes[i])

\* C11: once an ImportDatabase call that created its temporary file has
\* returned, the file no longer exists, whichever way the call ended
C11_TempFileRemoved ==
    \A c \in ImportCalls :
        (ImportReturned(c) /\ CreatedFile(c)) => imports[c].file \notin DOMAIN tempFiles

\* one call has returned with success and the other was turned away by the gate
C11_Witness ==
    /\ \A c \in ImportCalls : ImportReturned(c) /\ CreatedFile(c)
    /\ imports["i1"].sent # "" /\ imports["i1"].err = NoErr
    /\ GateRejected("i2")

\* the payloads, one after the other
RECURSIVE Concat(_)
Concat(payloads) ==
    IF payloads = <<>> THEN "" ELSE Head(payloads) \o Concat(Tail(payloads))

\* C12: when the stream has ended the temporary file holds the payloads of all
\* stream messages, the first included, in arrival order
C12_FileHoldsAllPayloads ==
    \A c \in ImportCalls :
        imports[c].pc = "gate" =>
            tempFiles[imports[c].file] = Concat(imports[c].received)

\* the database target the options stand for
TargetOf(opts) ==
    [engine |-> opts.Engine, version |-> opts.Version, hostname |-> opts.Hostname,
     port |-> opts.Port, database |-> opts.DatabaseName, compressed |-> opts.Compressed]

\* C13: the target used by the reachability gate and by the import is the one
\* of the first stream message, whatever database fields later messages carry
C13_TargetIsFirstMessage ==
    \A c \in ImportCalls :
        FirstRead(c) =>
            /\ TargetOf(imports[c].opts) = imports[c].first
            /\ (ImportReturned(c) /\ GateRejected(c)) =>
                    imports[c].err = Internal(GateMessage(imports[c].first.hostname,
                                                          imports[c].first.port))
            /\ (ImportRan(c) /\ imports[c].ran.procs # <<>>) =>
                    /\ imports[c].ran.procs[1].tool
                            = (IF imports[c].first.engine = "mysql" THEN "mysql" ELSE "psql")
                    /\ Statement(imports[c].ran.procs[1])
                            \in {"CREATE DATABASE IF NOT EXISTS "
                                    \o imports[c].first.database \o ";",
                                 "CREATE DATABASE " \o imports[c].first.database \o ";"}
            /\ ImportSucceeded(c) =>
                    /\ <<imports[c].first.hostname, imports[c].first.database>>
                            \in databases
                    /\ imports[c].sent
                            = "Imported database \"" \o imports[c].first.database \o "\""

\* a later message named another target, and the import went through
C13_Witness ==
    \E c \in ImportCalls :
        /\ imports[c].differs
        /\ ImportSucceeded(c)
        /\ imports[c].first = DatabaseInfo(Target("mysql", "shop"), FALSE)

\* the steps after the receive loop, in the order of the handler
ImportSteps == <<"eof", "gate", "import", "send">>

IsPrefix(s, t) == Len(s) <= Len(t) /\ SubSeq(t, 1, Len(s)) = s

\* C14: the stream is read to its end, then the gate runs, then the import
\* (create, then restore from the temp file), then the response is sent: no
\* gate before the end of the stream, no import before the gate has passed,
\* no success response before the import has succeeded
C14_StepsInOrder ==
    \A c \in ImportCalls :
        /\ IsPrefix(imports[c].steps, ImportSteps)
        /\ imports[c].probed <=> Len(imports[c].steps) >= 2
        /\ ImportRan(c) <=> Len(imports[c].steps) >= 3
        /\ imports[c].sent # "" <=> Len(imports[c].steps) = 4
        /\ imports[c].pc \in {"gate", "import"} => StreamEnded(c)
        /\ imports[c].pc = "import" => GatePassed(c)
        /\ ImportRan(c) => GatePassed(c)
        /\ imports[c].sent # "" => ImportSucceeded(c)
        /\ (ImportRan(c) /\ Len(imports[c].ran.procs) = 2) =>
                /\ ExitedZero(imports[c].ran.outcomes[1])
                /\ HasPrefix(Statement(imports[c].ran.procs[1]), "CREATE DATABASE ")
                /\ Last(imports[c].ran.procs[2].args)
                        \in {imports[c].file, "-e source " \o imports[c].file}

\* a stream of three messages was imported and answered
C14_Witness ==
    \E c \in ImportCalls :
        /\ imports[c].steps = ImportSteps
        /\ Len(imports[c].received) = 3
        /\ ImportReturned(c)

(***************************************************************************)
(* The proxy container: the claims                                         *)
(***************************************************************************)
IsCreateCall(r) == r.call = "ContainerCreate"
IsStartCall(r) == r.call = "ContainerStart"
IsContainerCall(r) == r.call \in {"ContainerList", "ContainerCreate", "ContainerStart"}
CreateCalls == SelectSeq(proxy.calls, IsCreateCall)
StartCalls == SelectSeq(proxy.calls, IsStartCall)
ContainerCalls == SelectSeq(proxy.calls, IsContainerCall)

\* the containers named nitro-proxy that the listing of Create, and that of
\* FindAndStart, returned
ListedByCreate ==
    Named({c \in proxy.before.containers :
            {<<LabelsNitro, "true">>, <<LabelsProxy, "true">>} \subseteq c.Labels})
ListedByFindAndStart ==
    Named({c \in proxy.before.containers : <<LabelsType, "proxy">> \in c.Labels})

ContainerIDs(d) == {c.ID : c \in d.containers}

\* C15: after a Create that returned nil exactly one container named
\* nitro-proxy exists and it runs; a create request is issued only when no
\* container of that name was listed, and a listed one is used again
C15_ExactlyOneRunningProxy ==
    proxy.op = "Create" =>
        /\ proxy.err = Nil =>
                /\ Cardinality(Named(docker.containers)) = 1
                /\ \A c \in Named(docker.containers) : c.State = "running"
        /\ CreateCalls # <<>> => ListedByCreate = {}
        /\ ListedByCreate # {} =>
                /\ ContainerIDs(docker) = ContainerIDs(proxy.before)
                /\ \A i \in DOMAIN StartCalls :
                        StartCalls[i].id \in {c.ID : c \in ListedByCreate}

\* a second Create in a row finds the container the first one made
C15_Witness ==
    /\ proxy.op = "Create"
    /\ proxy.err = Nil
    /\ proxy.before.created = 1
    /\ docker.created = 1
    /\ \E c \in ListedByCreate : c.ID = "proxy1"

\* the port a variable stands for, in the form the engine takes
ComputedPort(value, default) == (IF value = "" THEN default ELSE value) \o "/tcp"

\* the number of a port written <number>/tcp
PortNumber(p) == SubSeq(p, 1, Len(p) - 4)

\* C16: a container Create creates exposes exactly three TCP ports, the values
\* of NITRO_HTTP_PORT, NITRO_HTTPS_PORT and NITRO_API_PORT where set and 80, 443
\* and 5000 otherwise, and each of them is the port published on 127.0.0.1
C16_PortsPublished ==
    (proxy.op = "Create" /\ CreateCalls # <<>>) =>
        LET req == CreateCalls[1]
            ports == {ComputedPort(proxy.env.NITRO_HTTP_PORT, "80"),
                      ComputedPort(proxy.env.NITRO_HTTPS_PORT, "443"),
                      ComputedPort(proxy.env.NITRO_API_PORT, "5000")}
        IN /\ req.ExposedPorts = ports
           /\ Cardinality(req.ExposedPorts) = 3
           /\ DOMAIN req.PortBindings = ports
           /\ \A p \in ports :
                req.PortBindings[p] = <<PortBinding("127.0.0.1", PortNumber(p))>>

\* the image could not be listed or pulled
ImageStepFailed ==
    /\ proxy.env.NITRO_DEVELOPMENT # "true"
    /\ \/ proxy.out = "ImageList"
       \/ proxy.out \in {"ImagePull", "ImagePullRead"} /\ ~proxy.before.image

\* the engine refused the create request
CreateRefused == CreateCalls # <<>> /\ docker.created = proxy.before.created

\* C17: when listing or pulling the image fails Create returns an error and has
\* listed, created and started no container; when the create request fails
\* Create returns an error and has issued no start request
C17_FatalImageAndCreateErrors ==
    proxy.op = "Create" =>
        /\ ImageStepFailed =>
                /\ proxy.err # Nil
                /\ ContainerCalls = <<>>
                /\ docker.containers = proxy.before.containers
        /\ CreateRefused =>
                /\ proxy.err # Nil
                /\ StartCalls = <<>>
                /\ docker.containers = proxy.before.containers

\* the pull failed while a stopped proxy container was there to be started
C17_Witness ==
    /\ proxy.op = "Create"
    /\ ImageStepFailed
    /\ proxy.out = "ImagePull"
    /\ \E c \in ListedByCreate : c.State = "exited"

\* C18: FindAndStart returns ErrNoProxyContainer exactly when the listing
\* succeeded and held no container named nitro-proxy; a failed listing or start
\* is another error; a container found is started if and only if it does not
\* run, and is returned; no container is ever created
C18_FindAndStart ==
    proxy.op = "FindAndStart" =>
        /\ proxy.err = ErrNoProxyContainer
                <=> (proxy.out # "ContainerList" /\ ListedByFindAndStart = {})
        /\ proxy.out = "ContainerList" => proxy.err \notin {Nil, ErrNoProxyContainer}
        /\ (proxy.out # "ContainerList" /\ ListedByFindAndStart # {}) =>
                \A c \in ListedByFindAndStart :
                    /\ StartCalls # <<>> <=> c.State # "running"
                    /\ \A i \in DOMAIN StartCalls : i = 1 /\ StartCalls[i].id = c.ID
                    /\ (c.State # "running" /\ proxy.out = "ContainerStart") =>
                            proxy.err \notin {Nil, ErrNoProxyContainer}
                    /\ (c.State = "running" \/ proxy.out # "ContainerStart") =>
                            /\ proxy.err = Nil
                            /\ proxy.container = c
                            /\ \E r \in docker.containers :
                                    r.ID = c.ID /\ r.State = "running"
        /\ CreateCalls = <<>>
        /\ ContainerIDs(docker) = ContainerIDs(proxy.before)

\* a stopped proxy container was found, started and returned
C18_Witness ==
    /\ proxy.op = "FindAndStart"
    /\ proxy.err = Nil
    /\ proxy.container.State = "exited"
    /\ Len(StartCalls) = 1

\* C19: from an engine without proxy container a successful Create issues one
\* create request, for a container named nitro-proxy on the given network, and
\* then one start request, for the ID the create returned
C19_CreateThenStart ==
    (proxy.op = "Create" /\ proxy.err = Nil /\ Named(proxy.before.containers) = {}) =>
        /\ Len(CreateCalls) = 1
        /\ CreateCalls[1].name = "nitro-proxy"
        /\ CreateCalls[1].EndpointsConfig["nitro-network"].NetworkID = proxy.networkID
        /\ Len(StartCalls) = 1
        /\ {StartCalls[1].id} = ContainerIDs(docker) \ ContainerIDs(proxy.before)
        /\ ContainerCalls = <<ContainerCalls[1], CreateCalls[1], StartCalls[1]>>

\* the image was pulled, the container created on net-b and started
C19_Witness ==
    /\ proxy.op = "Create"
    /\ proxy.err = Nil
    /\ proxy.before = NoDocker
    /\ proxy.networkID = "net-b"
    /\ Len(CreateCalls) = 1
    /\ Len(proxy.calls) = 5

(***************************************************************************)
(* Apply: the request on the wire                                          *)
(***************************************************************************)
ServersPath == "/config/apps/http/servers"

\* the requests of a call are one POST of the whole document
OnePost(c) ==
    /\ Len(apply[c].posts) = 1
    /\ apply[c].posts[1].url = svc.Addr \o ServersPath
    /\ apply[c].posts[1].contentType = "application/json"
    /\ DOMAIN Doc(c) = {"HTTPS", "HTTP"}
    /\ Len(Doc(c).HTTPS.Routes) = NumSites(c)
    /\ Len(Doc(c).HTTP.Routes) = NumSites(c) + 1
    /\ \E order \in Perms(DOMAIN apply[c].request) :
            Doc(c) = UpdateRequest(SiteRoutes(apply[c].request, order))

\* a step in which call c sends: the address is the service's, or the default
\* one when the service has none
PostsToAddr(c) ==
    (apply[c].posts = <<>> /\ apply'[c].posts # <<>>) =>
        apply'[c].posts[1].url
            = (IF svc.Addr = "" THEN "http://127.0.0.1:2019" ELSE svc.Addr) \o ServersPath

\* C20: an Apply call sends exactly one POST, to <addr>/config/apps/http/servers
\* with http://127.0.0.1:2019 for a service without address, carrying the whole
\* two-server document, and no further request whatever the answer
C20_ExactlyOnePost ==
    /\ [](\A c \in ApplyCalls : IF Sent(c) THEN OnePost(c) ELSE apply[c].posts = <<>>)
    /\ [][\A c \in ApplyCalls : PostsToAddr(c)]_vars

\* one call has met an unreachable endpoint and the other a rejection, from a
\* service that started without address
C20_Witness ==
    /\ \A c \in ApplyCalls : Returned(c) /\ Len(apply[c].posts) = 1
    /\ apply["c1"].postErr # Nil
    /\ apply["c2"].status = 500
    /\ apply["c1"].posts[1].url = "http://127.0.0.1:2019/config/apps/http/servers"

(***************************************************************************)
(* Apply: two calls at once                                                *)
(***************************************************************************)
\* the endpoint has accepted the document of call c
Accepted(c) == Returned(c) /\ apply[c].status \in AcceptStatuses

\* a step in which the endpoint accepts the document of call c
Accepts(c) == apply[c].pc = "posted" /\ apply'[c].pc = "done"
                /\ apply'[c].status \in AcceptStatuses

C22_NoHandlerWritesService == [][svc' = svc]_vars

(***************************************************************************)
(* The local process runner                                                *)
(***************************************************************************)
\* the ways a process may end, with every exit code of one byte
AllExecOutcomes ==
    ExecOutcomes \cup {[kind |-> "exit", code |-> n, err |-> ""] : n \in 0..255}

StartError == "unable to start the command"
ExitError == "Exit Status: "

\* C23: exec returns nil exactly for a process that started and exited with
\* code 0; one that did not start gives an 'unable to start the command' error,
\* one that exited nonzero another error, which carries the exit code
C23_ExecResult ==
    /\ \A o \in AllExecOutcomes :
            /\ Exec(o) = Nil <=> (o.kind = "exit" /\ o.code = 0)
            /\ o.kind = "nostart" => HasPrefix(Exec(o), StartError)
            /\ (o.kind = "exit" /\ o.code # 0) =>
                    /\ HasPrefix(Exec(o), ExitError)
                    /\ ~HasPrefix(Exec(o), StartError)
                    /\ ParseUint(SubSeq(Exec(o), Len(ExitError) + 1, Len(Exec(o))))
                            = o.code
    /\ (Called("RemoveDatabase") /\ Len(unary.ran.procs) = 1) =>
            LET err == Exec(unary.ran.outcomes[1]) IN
            unary.ran.err = (IF err = Nil THEN NoErr
                             ELSE Internal("error removing database: " \o err))

\* a drop whose client exited with code 1
C23_Witness ==
    /\ Called("RemoveDatabase")
    /\ Len(unary.ran.procs) = 1
    /\ unary.ran.outcomes[1].kind = "exit"
    /\ unary.ran.err = Internal("error removing database: Exit Status: 1")

(***************************************************************************)
(* ImportDatabase: the stream and the files                                *)
(***************************************************************************)
\* call c holds its temp file: it is past the creation and has not returned
HoldsFile(c) == imports[c].pc \in {"first", "stream", "gate", "import"}

\* the payloads of the messages after the first, one after the other
LaterPayloads(c) == Concat(Tail(imports[c].received))

\* C24: the payloads of the messages after the first are appended to the temp
\* file in arrival order, nothing dropped, doubled or moved, and the file is
\* whole before the gate and the import run: chunks 'INSERT' and ' INTO t;'
\* after the first message give 'INSERT INTO t;'
C24_LaterPayloadsInOrder ==
    \A c \in ImportCalls :
        /\ (HoldsFile(c) /\ FirstRead(c)) =>
                tempFiles[imports[c].file] = LaterPayloads(c)
        /\ (imports[c].pc \in {"gate", "import"}
                /\ Tail(imports[c].received) = <<"INSERT", " INTO t;">>) =>
                tempFiles[imports[c].file] = "INSERT INTO t;"
        /\ ImportRan(c) => imports[c].ran.lookups = 1 /\ StreamEnded(c)

\* the stream of the example has ended and the import is about to run
C24_Witness ==
    \E c \in ImportCalls :
        /\ imports[c].pc = "import"
        /\ imports[c].first = DatabaseInfo(Target("mysql", "shop"), FALSE)
        /\ imports[c].received = <<"", "INSERT", " INTO t;">>
        /\ tempFiles[imports[c].file] = "INSERT INTO t;"

\* the errors of a stream that broke: before the first message, at a later
\* receive, at a write to the temp file
StreamErrors ==
    {Internal("unable to receive from stream: " \o e) : e \in {"EOF", "transport is closing"}}
        \cup {Internal("unable to create the stream: transport is closing"),
              Internal("unable to write content to the temp file")}

\* C25: when the stream ends or fails before the first message, or a receive
\* or a write fails later, the call returns an internal error at once: no gate,
\* no import, no response on the stream
C25_StreamErrorsReturnAtOnce ==
    \A c \in ImportCalls :
        /\ imports[c].err # NoErr => ImportReturned(c) /\ imports[c].err.code = "Internal"
        /\ (ImportReturned(c) /\ CreatedFile(c) /\ ~StreamEnded(c)) =>
                imports[c].err \in StreamErrors
        /\ imports[c].err \in StreamErrors =>
                /\ ~imports[c].probed
                /\ ~ImportRan(c)
                /\ imports[c].ran.procs = <<>>
                /\ imports[c].sent = ""
                /\ imports[c].steps = <<>>

\* one stream ended before its first message, the other met a failed write
C25_Witness ==
    /\ imports["i1"].err = Internal("unable to receive from stream: EOF")
    /\ imports["i2"].err = Internal("unable to write content to the temp file")
    /\ \A c \in ImportCalls : ImportReturned(c)

\* call c takes a step
Steps(c) == imports'[c] # imports[c]

\* file n is written or removed in a step
Touched(n) == n \notin DOMAIN tempFiles' \/ tempFiles'[n] # tempFiles[n]

\* C26: however concurrent ImportDatabase calls interleave, a call writes and
\* deletes only the temp file it created; no file receives bytes of another
\* call's stream and none is deleted while its call still writes or imports
C26_TempFilesOwned ==
    /\ [](\A c \in ImportCalls :
            HoldsFile(c) =>
                /\ imports[c].file \in DOMAIN tempFiles
                /\ tempFiles[imports[c].file]
                        = (IF FirstRead(c) THEN Concat(Tail(imports[c].received)) ELSE "")
                /\ \A d \in ImportCalls \ {c} : imports[d].file # imports[c].file)
    /\ [][\A n \in DOMAIN tempFiles :
            Touched(n) => \E c \in ImportCalls :
                            Steps(c) /\ HoldsFile(c) /\ imports[c].file = n]_vars

\* the first call has returned and its file is gone, the second is about to
\* import from its own file
C26_Witness ==
    /\ ImportReturned("i1") /\ CreatedFile("i1") /\ Len(imports["i1"].received) = 3
    /\ imports["i2"].pc = "import"
    /\ DOMAIN tempFiles = {imports["i2"].file}
    /\ tempFiles[imports["i2"].file] = "INSERT"

(***************************************************************************)
(* The proxy container: start, and what is never done                      *)
(***************************************************************************)
\* the call got as far as its start step: no earlier step failed
ReachedStart == proxy.failed \in {"", "ContainerStart"}

ListedRunning == \E c \in ListedByCreate : c.State = "running"

\* C27: a Create that gets to its start step issues a start request exactly
\* when the proxy container was not listed as running: one found created or
\* exited is started and Create returns nil, one that runs is not started again
C27_StartIffNotRunning ==
    (proxy.op = "Create" /\ ReachedStart) =>
        /\ StartCalls # <<>> <=> ~ListedRunning
        /\ Len(StartCalls) <= 1
        /\ \A c \in ListedByCreate :
                /\ c.State = "running" =>
                        /\ StartCalls = <<>>
                        /\ proxy.err = Nil
                        /\ c \in docker.containers
                /\ (c.State # "running" /\ proxy.out # "ContainerStart") =>
                        /\ StartCalls[1].id = c.ID
                        /\ proxy.err = Nil
                        /\ [c EXCEPT !.State = "running"] \in docker.containers
                /\ (c.State # "running" /\ proxy.out = "ContainerStart") =>
                        /\ StartCalls[1].id = c.ID
                        /\ proxy.err # Nil

\* a container listed in state created was started
C27_Witness ==
    /\ proxy.op = "Create"
    /\ proxy.err = Nil
    /\ \E c \in ListedByCreate : c.State = "created"
    /\ Len(StartCalls) = 1

\* the requests Create and FindAndStart are made of
ProxyRequests ==
    {"ImageList", "ImagePull", "ContainerList", "ContainerCreate", "ContainerStart"}

\* C28: no step of Create or FindAndStart removes or stops a container: a
\* container that was there is there afterwards, in the state it had or
\* running; a new one appears only where none had the name, created or running
C28_NeverRemovedNeverStopped ==
    proxy.op \in {"Create", "FindAndStart"} =>
        /\ \A i \in DOMAIN proxy.calls : proxy.calls[i].call \in ProxyRequests
        /\ \A c \in proxy.before.containers :
                \/ c \in docker.containers
                \/ c.State # "running" /\ [c EXCEPT !.State = "running"] \in docker.containers
        /\ \A c \in docker.containers :
                c.ID \notin ContainerIDs(proxy.before) =>
                    /\ proxy.op = "Create"
                    /\ Named(proxy.before.containers) = {}
                    /\ c.State \in {"created", "running"}
        /\ Cardinality(docker.containers) <= Cardinality(proxy.before.containers) + 1

\* a container this subsystem created, stopped from outside since, is started
\* again under its ID
C28_Witness ==
    /\ proxy.op = "Create"
    /\ Container("proxy1", "/nitro-proxy", "exited", ProxyLabels)
            \in proxy.before.containers
    /\ Container("proxy1", "/nitro-proxy", "running", ProxyLabels) \in docker.containers
    /\ docker.created = 1

(***************************************************************************)
(* The CLI commands: the claims                                            *)
(***************************************************************************)
\* the requests the command has sent for a session, without the copy of its output
RequestsTo(id) == SelectSeq(cli.log, LAMBDA r : r.id = id /\ r.op # "copy")

\* where in the log the session was created, and where it was first seen not to run
\* (0: not yet)
CreatedAt(id) ==
    CHOOSE k \in 1..Len(cli.log) : cli.log[k] = [op |-> "create", id |-> id, answer |-> "ok"]

SeenNotRunning(id, k) ==
    \E m \in 1..k :
        cli.log[m] = [op |-> "inspect", id |-> id, answer |-> "not running"]

\* the sessions of the import: those of the create command, and that of the import
\* command
ImportSessions(which) ==
    {id \in 1..Len(ctr.execs) :
        ctr.execs[id].Cmd = ImportCmds(cli.detected, cli.db, cli.filename)[which]}

InspectFailed == [op |-> "inspect", id |-> cli.exec, answer |-> "error"]

\* C29: in nitro db import every exec session is sent create, attach, start and then
\* inspect requests, in this order; a session is created only after the sessions
\* before it were seen not to run (so the import session after the create-database
\* sessions), and they do not run then; "Import successful" is reported only after
\* the import session was seen not to run; and an inspect that fails is the last
\* request of the command, which returns that error and reports no success.
C29_ImportExecOrder ==
    cli.cmd = "import" =>
        /\ \A id \in 1..Len(ctr.execs) :
                LET ops == RequestsTo(id) IN
                /\ \A i \in 1..Len(ops) :
                        ops[i].op = IF i <= 3 THEN <<"create", "attach", "start">>[i]
                                    ELSE "inspect"
                /\ \A j \in 1..(id - 1) :
                        /\ SeenNotRunning(j, CreatedAt(id))
                        /\ ctr.execs[j].Started /\ ~ctr.execs[j].Running
        /\ \A i \in ImportSessions("importCmd") : \A c \in ImportSessions("createCmd") :
                c < i
        /\ "Import successful" \in {cli.out[i] : i \in 1..Len(cli.out)} =>
                \E i \in ImportSessions("importCmd") :
                    /\ SeenNotRunning(i, Len(cli.log))
                    /\ ctr.execs[i].Started /\ ~ctr.execs[i].Running
        /\ \A k \in 1..Len(cli.log) :
                cli.log[k].op = "inspect" /\ cli.log[k].answer = "error" =>
                    /\ k = Len(cli.log)
                    /\ cli.log[k] = InspectFailed
                    /\ cli.returned
                    /\ cli.out = <<>>
                    /\ cli.err = IF Current(cli).phase = "execCreate"
                                 THEN "unable to create the database, " \o EngineError
                                 ELSE EngineError

\* an import with its output shown that had to wait for its create-database session
\* and reported success
C29_Witness ==
    /\ cli.cmd = "import" /\ cli.show /\ cli.returned /\ cli.err = Nil
    /\ cli.out = <<"Import successful">>
    /\ Len(ctr.execs) = 3
    /\ \E k \in 1..Len(cli.log) :
            cli.log[k] = [op |-> "inspect", id |-> 2, answer |-> "running"]

\* the loops of the commands, by the request they repeat, and what each waits for:
\* the uploaded backup is there, the certificate is there, the session does not run
Waits == {"stat", "statName", "inspect"}

Holds(wait) ==
    CASE wait = "stat" -> ("/tmp/" \o cli.filename) \in ctr.files
      [] wait = "statName" -> CertPath \in ctr.files
      [] wait = "inspect" -> /\ cli.exec \in 1..Len(ctr.execs)
                             /\ ~ctr.execs[cli.exec].Running

\* C30: a poll of a waiting loop (the exec polls of the import and of the
\* create-database prompt, the wait for the uploaded file, the wait for the
\* certificate) that is made while what the loop waits for holds takes the command
\* out of the loop; and a command that is not starved does not stay in a loop for
\* ever once what the loop waits for holds for good.
C30_WaitsEnd ==
    /\ [][\A wait \in Waits :
            At(wait) /\ Holds(wait) /\ cli' # cli =>
                \/ cli'.returned
                \/ cli'.pc = cli.pc + 1]_vars
    /\ \A wait \in Waits : []<>~(At(wait) /\ Holds(wait))

\* an import that waited for the file, then for its last session, and went on to
\* report success
C30_Witness ==
    /\ cli.cmd = "import" /\ cli.returned /\ cli.err = Nil
    /\ cli.out = <<"Import successful">>
    /\ \E k \in 1..Len(cli.log) : \E m \in (k + 1)..Len(cli.log) :
            /\ cli.log[k] = [op |-> "stat", id |-> 0, answer |-> "error"]
            /\ cli.log[m] = [op |-> "stat", id |-> 0, answer |-> "ok"]
    /\ \E k \in 1..Len(cli.log) :
            cli.log[k] = [op |-> "inspect", id |-> 3, answer |-> "running"]

\* what the command has reported
Reported == {cli.out[i] : i \in 1..Len(cli.out)}

\* C31: the create-database prompt starts the privileges session (mysql) only after
\* the create session was seen not to run, and reports "Database added" only after
\* the create session was seen not to run.
C31_PromptWaitsForCreate ==
    cli.cmd = "createdb" =>
        /\ \A k \in 1..Len(cli.log) :
                cli.log[k] = [op |-> "start", id |-> 2, answer |-> "ok"] =>
                    SeenNotRunning(1, k)
        /\ "Database added" \in Reported => SeenNotRunning(1, Len(cli.log))

\* the sessions of the import that have finished with an exit code other than 0,
\* among those that importCommand itself creates and waits for: the first session of
\* a run is execCreate's, the second runs createCmd, the third importCmd
FailedSessions ==
    {id \in 2..Len(ctr.execs) :
        /\ ctr.execs[id].Started
        /\ ~ctr.execs[id].Running
        /\ ctr.execs[id].ExitCode # 0}

\* C32: an import in which a create-database session or the import session has
\* finished with an exit code other than 0 does not report "Import successful", and
\* once it has returned it has returned an error.
C32_NonzeroExitFailsImport ==
    cli.cmd = "import" /\ FailedSessions # {} =>
        /\ "Import successful" \notin Reported
        /\ cli.returned => cli.err # Nil

(***************************************************************************)
(* nitro blackfire on: the claim                                           *)
(***************************************************************************)
SuccessfulRun == config.run.returned /\ config.run.err = Nil

\* a site of these has both Xdebug and Blackfire enabled
HasBoth(sites) == \E i \in 1..Len(sites) : sites[i].Xdebug /\ sites[i].Blackfire

\* after a successful run the selected site has Blackfire and no Xdebug in the saved
\* file, and no site has both unless one had both before
EnabledAndSaved ==
    SuccessfulRun =>
        /\ config.file = config.run.cfg
        /\ \E i \in 1..Len(config.file.Sites) :
                /\ config.file.Sites[i].Hostname = config.run.site
                /\ config.file.Sites[i].Blackfire
                /\ ~config.file.Sites[i].Xdebug
        /\ ~HasBoth(config.before.Sites) => ~HasBoth(config.file.Sites)

\* Blackfire is enabled for a site only with a server ID and a server token
EnabledWithCredentials ==
    config.run.enabled # "" =>
        /\ config.run.cfg.Blackfire.ServerID # ""
        /\ config.run.cfg.Blackfire.ServerToken # ""

\* C33: after a successful nitro blackfire on the selected site has Blackfire enabled
\* and Xdebug disabled in the saved config, and no site has both unless one had both
\* before; and Blackfire is never enabled for a site while the server ID or the
\* server token is empty.
C33_BlackfireOn == EnabledAndSaved /\ EnabledWithCredentials

(***************************************************************************)
(* The proxy container: the port variables                                 *)
(***************************************************************************)
\* the port variables and what the errors call them
PortVariables ==
    {<<"NITRO_HTTP_PORT", "HTTP">>, <<"NITRO_HTTPS_PORT", "HTTPS">>,
     <<"NITRO_API_PORT", "API">>}

\* Create has listed the containers, found none named nitro-proxy and so come to
\* the ports
CameToPorts ==
    /\ proxy.op = "Create"
    /\ ContainerCalls # <<>>
    /\ proxy.failed # "ContainerList"
    /\ ListedByCreate = {}

\* C34: a Create that comes to the ports with a port variable that holds no valid
\* port returns an error that names that port and the value, and issues no create
\* request; and no create request exposes an empty or invalid port.
C34_InvalidPortRefused ==
    /\ CameToPorts =>
            \A v \in PortVariables :
                LET p == NewPort("tcp", proxy.env[v[1]]) IN
                proxy.env[v[1]] # "" /\ p.err # Nil =>
                    /\ proxy.err = "unable to set the " \o v[2] \o " port, " \o p.err
                    /\ CreateCalls = <<>>
    /\ proxy.op = "Create" =>
            \A i \in DOMAIN CreateCalls : \A p \in CreateCalls[i].ExposedPorts :
                /\ Len(p) > 4
                /\ NewPort("tcp", PortNumber(p)).err = Nil

\* the waits for a file: for the uploaded backup, for the certificate
FileWaits == {"stat", "statName"}

\* C35: a command that waits for a file while the stat keeps failing (the file is
\* not there and does not come) does not wait for ever: it returns an error.
C35_FileWaitGivesUp ==
    \A wait \in FileWaits :
        (At(wait) /\ [](~Holds(wait))) ~> (cli.returned /\ cli.err # Nil)

\* the sessions that were started: they run, or have run, their command in the
\* container
StartedSessions(which) == {id \in ImportSessions(which) : ctr.execs[id].Started}

\* C36: an import that has started its import command has started the create-database
\* command before it, and no import starts the create-database command more than
\* once.
C36_CreateRunsOnce ==
    cli.cmd = "import" =>
        /\ Cardinality(StartedSessions("createCmd")) <= 1
        /\ \A i \in StartedSessions("importCmd") :
                /\ Cardinality(StartedSessions("createCmd")) = 1
                /\ \A c \in StartedSessions("createCmd") : c < i

\* the engine a client command belongs to
ClientEngine(cmd) ==
    CASE cmd[1] = "psql" -> "postgres"
      [] cmd[1] = "mysql" -> "mysql"
      [] OTHER -> ""

\* C37: every session of an import runs a client command of the engine of the
\* container it runs in: psql in a container labelled postgres, mysql in one
\* labelled mysql.
C37_CommandsMatchContainer ==
    cli.cmd = "import" =>
        \A id \in 1..Len(ctr.execs) : ClientEngine(ctr.execs[id].Cmd) = ctr.label

(***************************************************************************)
(* ImportDatabase: the importer                                            *)
(***************************************************************************)
\* C38: the importer an ImportDatabase call has invoked is the one the Service
\* holds: the injected one, or the one the call put there when the field was nil.
C38_ImportsThroughServiceImporter ==
    \A c \in ImportCalls : ImportRan(c) => imports[c].importer = svc.Importer

====
